---- MODULE Spec2Model ----
(***************************************************************************)
(* Model of the ID relationship and anonymization engine of                *)
(* src/id_processor.py (class IDProcessor): the hashing cache, the legacy  *)
(* relationship resolver, the resumable file rewrite with its retry loop,  *)
(* the persisted lookup table and the orchestration of process_all_files.  *)
(*                                                                         *)
(* Strings are TLA+ strings.  A SHA-256 hex digest of x is written         *)
(* "#" \o x: an injective stand-in for the 64-character digest.  Python    *)
(* dicts are insertion-ordered, so a dict is a sequence of <<key, value>>  *)
(* pairs.                                                                  *)
(***************************************************************************)
EXTENDS Integers, Sequences, FiniteSets, TLC

VARIABLES
    \* ---- files on disk -------------------------------------------------
    relTable,        \* rows of the relationship table (the mapping_file)
    rowFile,         \* source_file of each row of the mapping configuration
    diskProcessed,   \* persisted 'processed' column (<<>>: column absent)
    fs,              \* content of each source file: absent / orig / new
    tempFile,        \* the temporary file of the running update_file_ids
    strayTemp,       \* a temporary file left behind by a killed process
    training,        \* training extract of each source file
    backup,          \* the .backup sibling of each source file
    lookupFile,      \* id_lookup_table.csv
    primary,         \* the table each source file holds
    tempTable,       \* the table the temporary file holds
    relIsFile,       \* the source file that is the mapping_file (0: none)
    rowKey,          \* id_type and source_context of each configuration row
    \* ---- engine instance (memory of the running process) ---------------
    pc,              \* position of the worker
    is_running,
    hash_table,
    not_hashed_ids,
    processed_files,
    memProcessed,    \* mapping_df['processed'] in memory
    unprocessed,     \* unprocessed_rows: row indexes, in order
    pos,             \* loop index over unprocessed_rows
    id_mapping,
    consent_status_mapping,
    person_mapping,
    attempt,         \* loop variable of the replace loop
    \* ---- history (observations the properties are stated over) ---------
    run,             \* number of process_all_files calls started
    issued,          \* <<x, h>>: hash_id(x) returned h, in any instance
    assigned,        \* <<x, h>>: some run put x -> h into IdMapping
    rewritten,       \* files whose replace step has succeeded, ever
    outcomes,        \* outcomes of the attempts of the current replace loop
    entryContent,    \* content of the target when update_file_ids was entered
    startFlags,      \* rows persisted as processed when the run started
    touched,         \* what the current run wrote: <<kind, file>>
    attempted,       \* rows the current run passed to update_file_ids
    lastEnd,         \* how the latest run ended, and the row that failed
    prevRun,         \* lastEnd as it was when the current run started
    stopRequested,   \* the user has asked the current run to stop
    lookupAtStart,   \* original_ids of the lookup table when the run started
    entryTable,      \* the table of the target when update_file_ids was entered
    progress,        \* the latest value passed to progress_callback by the run
    \* ---- the mapping configuration file --------------------------------
    config,          \* whether it exists, its columns, its mapping_file cells
    \* ---- further state ---------------------------------------------------
    files,           \* the list find_files returned to the running call
    resolved,        \* the latest call of resolve_id_conflicts and its result
    completion       \* what the worker thread of the user interface reported

diskVars == <<relTable, rowFile, diskProcessed, fs, tempFile, strayTemp,
              training, backup, lookupFile, primary, tempTable, relIsFile,
              rowKey>>
memVars  == <<pc, is_running, hash_table, not_hashed_ids, processed_files,
              memProcessed, unprocessed, pos, id_mapping,
              consent_status_mapping, person_mapping, attempt>>
histVars == <<run, issued, assigned, rewritten, outcomes, entryContent,
              startFlags, touched, attempted, lastEnd, prevRun,
              stopRequested, lookupAtStart, entryTable>>
cfgVars  == <<progress, config>>
auxVars  == <<files, resolved, completion>>
vars == <<diskVars, memVars, histVars, cfgVars, auxVars>>

----------------------------------------------------------------------------
\* Bounds of the model.

\* rows of the mapping configuration file
MaxRows == 2
\* distinct source files the configuration may name
MaxFiles == 2
\* rows of the relationship table
MaxRelRows == 2
\* process_all_files calls (one engine instance each) in a behaviour
MaxRuns == 2
\* rows of the mapping configuration where the progress values are explored
MaxProgressRows == 4

\* the rows of the mapping configuration
Rows  == DOMAIN rowFile
\* the rows of the configurations explored
InitRows == 1..MaxRows
Files == 1..MaxFiles

\* Identifiers that occur in the relationship table, and the identifier
\* column every source file holds ("Z" is in no relationship table).
Ids == {"A", "B"}
FileColumn == <<"A", "B", "Z">>

\* pandas NaN (an empty cell) and Python None
NaN  == "NaN"
None == "None"

\* identifier types and source contexts of the person-centric keys
IdTypes  == {"MRN"}
Contexts == {"lab"}

\* the persons of a person-centric relationship table, in sorted order
PersonOrder == <<"P1", "P2">>
Persons == {PersonOrder[i] : i \in DOMAIN PersonOrder}

----------------------------------------------------------------------------
\* Insertion-ordered dicts.

DictKeys(d) == {d[i][1] : i \in DOMAIN d}

DictHas(d, k) == k \in DictKeys(d)

DictGet(d, k) == d[CHOOSE i \in DOMAIN d : d[i][1] = k][2]

\* dict.get(k, default)
DictGetOr(d, k, default) == IF DictHas(d, k) THEN DictGet(d, k) ELSE default

RECURSIVE DictReplace(_, _, _)
DictReplace(d, k, v) ==
    IF d = <<>> THEN <<>>
    ELSE <<IF Head(d)[1] = k THEN <<k, v>> ELSE Head(d)>>
         \o DictReplace(Tail(d), k, v)

\* d[k] = v: an existing key keeps its place, a new key goes last
DictSet(d, k, v) ==
    IF DictHas(d, k) THEN DictReplace(d, k, v) ELSE Append(d, <<k, v>>)

\* d.update(e)
RECURSIVE DictUpdate(_, _)
DictUpdate(d, e) ==
    IF e = <<>> THEN d
    ELSE DictUpdate(DictSet(d, Head(e)[1], Head(e)[2]), Tail(e))

\* the pairs of a dict as a set
DictPairs(d) == {<<d[i][1], d[i][2]>> : i \in DOMAIN d}

----------------------------------------------------------------------------
\* Hashing Service.

\* hashlib.sha256(id_value.encode()).hexdigest()
sha256(x) == "#" \o x

\* len(id_value) == 64 and all(c in '0123456789abcdef' ...): the strings of
\* the model that are 64 hex characters long are exactly the digests.
LooksLikeHash(x) == x \in {sha256(y) : y \in Ids \cup {"Z"} \cup Persons}

\* hash_id: the value returned and the hash table afterwards
hash_id(table, id_value) ==
    IF DictHas(table, id_value)
    THEN [ret |-> DictGet(table, id_value), table |-> table]
    ELSE IF LooksLikeHash(id_value)
    THEN [ret |-> id_value, table |-> DictSet(table, id_value, id_value)]
    ELSE [ret |-> sha256(id_value),
          table |-> DictSet(table, id_value, sha256(id_value))]

\* _load_existing_lookup_table: hash_table[original_id] = hashed_id for each
\* row in order, starting from the empty table
RECURSIVE LoadRows(_, _)
LoadRows(table, rows) ==
    IF rows = <<>> THEN table
    ELSE LoadRows(DictSet(table, Head(rows).original_id, Head(rows).hashed_id),
                  Tail(rows))

_load_existing_lookup_table(file) ==
    IF file.exists THEN LoadRows(<<>>, file.rows) ELSE <<>>

----------------------------------------------------------------------------
\* Strings.

\* str.lower() on the strings of the model
Lower(s) ==
    CASE s = "Granted" -> "granted"
      [] s = "NaN"     -> "nan"
      [] OTHER         -> s

\* str.strip()
Strip(s) == IF s = " " THEN "" ELSE s

\* truth value of an optional string (None and '' are false, NaN is true)
Truthy(v) == v \notin {None, ""}

\* the strings of the model that hold no underscore
Atoms == Ids \cup {"Z"} \cup IdTypes \cup Contexts

\* key.split('_')
Split(k) ==
    IF \E a \in Atoms, b \in Atoms, c \in Atoms : k = a \o "_" \o b \o "_" \o c
    THEN CHOOSE t \in Atoms \X Atoms \X Atoms :
             k = t[1] \o "_" \o t[2] \o "_" \o t[3]
    ELSE IF \E a \in Atoms, b \in Atoms : k = a \o "_" \o b
    THEN CHOOSE t \in Atoms \X Atoms : k = t[1] \o "_" \o t[2]
    ELSE <<k>>

\* a set as a sequence, in some fixed order (iteration over a Python set)
RECURSIVE SetToSeq(_)
SetToSeq(S) ==
    IF S = {} THEN <<>>
    ELSE LET x == CHOOSE y \in S : TRUE IN <<x>> \o SetToSeq(S \ {x})

----------------------------------------------------------------------------
\* ID Relationship Resolver, legacy schema.

ValidStatuses == {"granted", "revoked", "none", "id not found"}

\* str(row.get('consent_status', 'none')).lower(), unknown values -> 'none'
NormalizeConsent(cell) ==
    IF Lower(cell) \in ValidStatuses THEN Lower(cell) ELSE "none"

NotNa(c) == c # NaN

\* the non-empty values of a row across the mapping_id columns
ids_in_row(row) == SelectSeq(row.cells, NotNa)

\* d[k] = v for every k of keys, in order
RECURSIVE SetAll(_, _, _)
SetAll(d, keys, v) ==
    IF keys = <<>> THEN d
    ELSE SetAll(DictSet(d, Head(keys), v), Tail(keys), v)

\* d[k] = sha256(k) for every k of keys, in order
RECURSIVE SetEachOwn(_, _)
SetEachOwn(d, keys) ==
    IF keys = <<>> THEN d
    ELSE SetEachOwn(DictSet(d, Head(keys), sha256(Head(keys))), Tail(keys))

\* a resolver that hashes every identifier of a row on its own
LegacyRow_own_hash(acc, row) ==
    LET ids     == ids_in_row(row)
        consent == NormalizeConsent(row.consent)
        granted == consent = "granted"
    IN  IF ids = <<>> THEN acc
        ELSE [idm   |-> IF granted THEN SetEachOwn(acc.idm, ids) ELSE acc.idm,
              csm   |-> SetAll(acc.csm, ids, consent),
              pm    |-> acc.pm,
              table |-> IF granted THEN SetEachOwn(acc.table, ids)
                        ELSE acc.table,
              calls |-> acc.calls]

\* one iteration of the loop over the relationship table; acc holds
\* id_mapping, consent_status_mapping, the hash table and the hash_id calls
LegacyRow(acc, row) ==
    LET ids     == ids_in_row(row)
        consent == NormalizeConsent(row.consent)
        h       == hash_id(acc.table, ids[1])
        granted == consent = "granted"
    IN  IF ids = <<>> THEN acc
        ELSE [idm   |-> IF granted THEN SetAll(acc.idm, ids, h.ret)
                        ELSE acc.idm,
              csm   |-> SetAll(acc.csm, ids, consent),
              pm    |-> acc.pm,
              table |-> IF granted THEN h.table ELSE acc.table,
              calls |-> IF granted THEN acc.calls \cup {<<ids[1], h.ret>>}
                        ELSE acc.calls]

RECURSIVE LegacyRows(_, _)
LegacyRows(acc, rows) ==
    IF rows = <<>> THEN acc
    ELSE LegacyRows(LegacyRow(acc, Head(rows)), Tail(rows))

\* _create_legacy_mapping, run on the engine's hash table
_create_legacy_mapping(mapping_table, table) ==
    LegacyRows([idm |-> <<>>, csm |-> <<>>, pm |-> <<>>,
                table |-> table, calls |-> {}], mapping_table)

----------------------------------------------------------------------------
\* ID Relationship Resolver, person-centric schema.

\* 'person_id' in mapping_table.columns
IsPersonCentric(mapping_table) ==
    mapping_table # <<>> /\ "person_id" \in DOMAIN mapping_table[1]

\* id_key of a record: id_value_id_type, and _source_context when given
PersonKey(record, source_context) ==
    LET key == record.id_value \o "_" \o record.id_type
    IN  IF /\ Truthy(source_context)
           /\ Strip(source_context) # ""
           /\ Lower(source_context) # "nan"
        THEN key \o "_" \o source_context
        ELSE key

\* the keys of the records of a group, in order
PersonKeys(records, source_context) ==
    [i \in DOMAIN records |-> PersonKey(records[i], source_context)]

\* a resolver that takes the consent status of a group from its last row
PersonGroup_last_row(acc, person_id, records, source_context) ==
    LET consent == NormalizeConsent(records[Len(records)].consent)
        h       == hash_id(acc.table, person_id)
        keys    == PersonKeys(records, source_context)
    IN  IF consent = "granted"
        THEN [idm   |-> SetAll(acc.idm, keys, h.ret),
              csm   |-> SetAll(acc.csm, keys, consent),
              pm    |-> DictSet(acc.pm, person_id, h.ret),
              table |-> h.table,
              calls |-> acc.calls \cup {<<person_id, h.ret>>}]
        ELSE [idm   |-> acc.idm,
              csm   |-> SetAll(acc.csm, keys, consent),
              pm    |-> acc.pm,
              table |-> acc.table,
              calls |-> acc.calls]

\* one iteration of the loop over the groups of mapping_table.groupby
PersonGroup(acc, person_id, records, source_context) ==
    LET consent == NormalizeConsent(records[1].consent)
        h       == hash_id(acc.table, person_id)
        keys    == PersonKeys(records, source_context)
    IN  IF consent = "granted"
        THEN [idm   |-> SetAll(acc.idm, keys, h.ret),
              csm   |-> SetAll(acc.csm, keys, consent),
              pm    |-> DictSet(acc.pm, person_id, h.ret),
              table |-> h.table,
              calls |-> acc.calls \cup {<<person_id, h.ret>>}]
        ELSE [idm   |-> acc.idm,
              csm   |-> SetAll(acc.csm, keys, consent),
              pm    |-> acc.pm,
              table |-> acc.table,
              calls |-> acc.calls]

\* the rows of a person, in the order of the table
RecordsOf(mapping_table, person_id) ==
    LET Mine(row) == row.person_id = person_id
    IN  SelectSeq(mapping_table, Mine)

RECURSIVE PersonGroups(_, _, _, _)
PersonGroups(acc, persons, mapping_table, source_context) ==
    IF persons = <<>> THEN acc
    ELSE LET records == RecordsOf(mapping_table, Head(persons))
         IN  PersonGroups(
               IF records = <<>> THEN acc
               ELSE PersonGroup(acc, Head(persons), records, source_context),
               Tail(persons), mapping_table, source_context)

\* _create_person_centric_mapping, run on the engine's hash table
_create_person_centric_mapping(mapping_table, table, source_context) ==
    PersonGroups([idm |-> <<>>, csm |-> <<>>, pm |-> <<>>,
                  table |-> table, calls |-> {}],
                 PersonOrder, mapping_table, source_context)

\* person_records.iloc[0]['consent_status'].lower() raises AttributeError
\* when the cell is empty: pandas reads it as the float NaN, which has no
\* method lower. The loop raises at the first group whose first row is so.
_create_person_centric_mapping_raises(mapping_table) ==
    \E p \in Persons :
        /\ RecordsOf(mapping_table, p) # <<>>
        /\ RecordsOf(mapping_table, p)[1].consent = NaN

\* create_id_mapping raises: the legacy branch converts the cell with str()
\* before lower() and does not raise on any cell
create_id_mapping_raises(mapping_table) ==
    /\ IsPersonCentric(mapping_table)
    /\ _create_person_centric_mapping_raises(mapping_table)

\* mapping_table[(id_value.astype(str) == str(id_value)) & (id_type == id_type)]
MatchingRecords(mapping_table, id_value, id_type) ==
    LET Matches(row) == row.id_value = id_value /\ row.id_type = id_type
    IN  SelectSeq(mapping_table, Matches)

\* id_records[id_records['source_context'] == source_context]
ContextMatches(id_records, source_context) ==
    LET Matches(row) == row.source_context = source_context
    IN  SelectSeq(id_records, Matches)

\* a sort that takes the earliest effective_date first
SortsBefore_ascending_date(a, b) ==
    \/ a.priority < b.priority
    \/ a.priority = b.priority /\ a.effective_date < b.effective_date

\* the order of sort_values(['priority', 'effective_date'],
\* ascending=[True, False]): a is placed strictly before b
SortsBefore(a, b) ==
    \/ a.priority < b.priority
    \/ a.priority = b.priority /\ a.effective_date > b.effective_date

\* iloc[0] of the sorted records; the sort keeps equal records in the order
\* of the table
FirstSorted(records) ==
    records[CHOOSE i \in DOMAIN records :
               \A j \in DOMAIN records :
                   /\ ~SortsBefore(records[j], records[i])
                   /\ j < i => SortsBefore(records[i], records[j])]

\* resolve_id_conflicts: the person_id of the first record, None without
\* a matching record
resolve_id_conflicts(mapping_table, id_value, id_type, source_context) ==
    LET id_records == MatchingRecords(mapping_table, id_value, id_type)
        context_matches == ContextMatches(id_records, source_context)
    IN  IF id_records = <<>> THEN None
        ELSE IF Truthy(source_context) /\ context_matches # <<>>
        THEN FirstSorted(context_matches).person_id
        ELSE FirstSorted(id_records).person_id

\* create_id_mapping: the schema is chosen by the person_id column
create_id_mapping(mapping_table, table, source_context) ==
    IF IsPersonCentric(mapping_table)
    THEN _create_person_centric_mapping(mapping_table, table, source_context)
    ELSE _create_legacy_mapping(mapping_table, table)

----------------------------------------------------------------------------
\* Resumable File Processor: what update_file_ids computes from the file.

\* create_lookup_key (nested helper of update_file_ids)
create_lookup_key(id_val, id_type, source_context) ==
    LET key == IF Truthy(id_type) THEN id_val \o "_" \o id_type ELSE id_val
    IN  IF /\ Truthy(source_context)
           /\ Strip(source_context) # ""
           /\ Lower(source_context) # "nan"
        THEN key \o "_" \o source_context
        ELSE key

\* the key under which the consent status and the hash of x are looked up
EnhancedKey(x, id_type, source_context) ==
    IF Truthy(id_type) /\ Truthy(source_context)
    THEN create_lookup_key(x, id_type, source_context)
    ELSE x

\* df['consent_status']: one status per row of the identifier column
ConsentColumn(column, csm, id_type, source_context) ==
    [i \in DOMAIN column |->
        DictGetOr(csm, EnhancedKey(column[i], id_type, source_context),
                  "ID not found")]

\* the identifiers of the column whose key is absent from id_mapping
NotHashed(column, idm, id_type, source_context) ==
    {column[i] : i \in {j \in DOMAIN column :
        ~DictHas(idm, IF Truthy(id_type)
                      THEN create_lookup_key(column[j], id_type, source_context)
                      ELSE column[j])}}

\* a training_df that keeps the rows of every status
RECURSIVE TrainingRows_every_status(_, _, _, _, _)
TrainingRows_every_status(column, csm, idm, id_type, source_context) ==
    IF column = <<>> THEN <<>>
    ELSE LET x   == Head(column)
             key == EnhancedKey(x, id_type, source_context)
         IN  <<<<x, DictGetOr(idm, key, x)>>>>
             \o TrainingRows_every_status(Tail(column), csm, idm, id_type,
                                          source_context)

\* training_df: the rows whose status is 'granted', the identifier replaced
\* by id_mapping.get(key, x); each row is <<original, written>>
RECURSIVE TrainingRows(_, _, _, _, _)
TrainingRows(column, csm, idm, id_type, source_context) ==
    IF column = <<>> THEN <<>>
    ELSE LET x   == Head(column)
             key == EnhancedKey(x, id_type, source_context)
         IN  (IF DictGetOr(csm, key, "ID not found") = "granted"
              THEN <<<<x, DictGetOr(idm, key, x)>>>>
              ELSE <<>>)
             \o TrainingRows(Tail(column), csm, idm, id_type, source_context)

----------------------------------------------------------------------------
\* Lookup Table Store.

LookupRecord(person, original, hashed, status, from_mapping, id_type, ctx) ==
    [person_id |-> person, original_id |-> original, hashed_id |-> hashed,
     consent_status |-> status, from_mapping |-> from_mapping,
     id_type |-> id_type, source_context |-> ctx]

\* the components of a key: actual_id, id_type, source_context
KeyParts(key) ==
    LET parts == Split(key)
    IN  IF Len(parts) >= 2
        THEN [actual_id |-> parts[1], id_type |-> parts[2],
              source_context |-> IF Len(parts) > 2 THEN parts[3] ELSE None]
        ELSE [actual_id |-> key, id_type |-> None, source_context |-> None]

\* acc: [records, seen]  (records, processed_ids)

\* (a) person mappings
RECURSIVE LookupPersons(_, _)
LookupPersons(acc, pm) ==
    IF pm = <<>> THEN acc
    ELSE LookupPersons(
           [records |-> Append(acc.records,
                LookupRecord(Head(pm)[1], Head(pm)[1], Head(pm)[2], "granted",
                             "True", NaN, NaN)),
            seen |-> acc.seen \cup {Head(pm)[1]}],
           Tail(pm))

\* (b) the keys of id_mapping with granted consent
RECURSIVE LookupGranted(_, _, _)
LookupGranted(acc, idm, csm) ==
    IF idm = <<>> THEN acc
    ELSE LET k == Head(idm)[1]
             p == KeyParts(k)
         IN  LookupGranted(
               IF DictGetOr(csm, k, None) = "granted"
               THEN [records |-> Append(acc.records,
                        LookupRecord("", p.actual_id, Head(idm)[2], "granted",
                            "True",
                            IF Truthy(p.id_type) THEN p.id_type ELSE NaN,
                            IF Truthy(p.source_context) THEN p.source_context
                            ELSE NaN)),
                     seen |-> acc.seen \cup {p.actual_id}]
               ELSE acc,
               Tail(idm), csm)

\* (c) the other entries of the hash table with granted consent
RECURSIVE LookupCached(_, _, _)
LookupCached(acc, table, csm) ==
    IF table = <<>> THEN acc
    ELSE LET k == Head(table)[1]
         IN  LookupCached(
               IF k \notin acc.seen /\ DictGetOr(csm, k, None) = "granted"
               THEN [records |-> Append(acc.records,
                        LookupRecord("", k, Head(table)[2], "granted",
                                     NaN, NaN, NaN)),
                     seen |-> acc.seen \cup {k}]
               ELSE acc,
               Tail(table), csm)

\* (d) the remaining keys of consent_status_mapping
RECURSIVE LookupStatuses(_, _)
LookupStatuses(acc, csm) ==
    IF csm = <<>> THEN acc
    ELSE LET k == Head(csm)[1]
             p == KeyParts(k)
         IN  LookupStatuses(
               IF k \notin acc.seen
               THEN [records |-> Append(acc.records,
                        LookupRecord("", p.actual_id, p.actual_id,
                            Head(csm)[2], NaN,
                            IF Truthy(p.id_type) THEN p.id_type ELSE NaN,
                            IF Truthy(p.source_context) THEN p.source_context
                            ELSE NaN)),
                     seen |-> acc.seen \cup {p.actual_id}]
               ELSE acc,
               Tail(csm))

\* (e) the identifiers found in the data tables that were not hashed
RECURSIVE LookupNotHashed(_, _)
LookupNotHashed(acc, ids) ==
    IF ids = <<>> THEN acc
    ELSE LookupNotHashed(
           IF Head(ids) \notin acc.seen
           THEN [records |-> Append(acc.records,
                    LookupRecord("", Head(ids), Head(ids), "ID not found",
                                 NaN, NaN, NaN)),
                 seen |-> acc.seen]
           ELSE acc,
           Tail(ids))

\* create_lookup_table: the records of the DataFrame, in order
create_lookup_table(idm, csm, pm, table, not_hashed) ==
    LET a == LookupPersons([records |-> <<>>, seen |-> {}], pm)
        b == LookupGranted(a, idm, csm)
        c == LookupCached(b, table, csm)
        d == LookupStatuses(c, csm)
        e == LookupNotHashed(d, SetToSeq(not_hashed))
    IN  e.records

----------------------------------------------------------------------------
\* Orchestrator: reading and writing the mapping configuration.

\* convert_to_bool that knows Python booleans only and takes every string,
\* 'True' included, as an unexpected value
convert_to_bool_no_strings(val) == val = "1"

\* convert_to_bool (nested helper of process_all_files) on a cell as read
convert_to_bool(val) ==
    IF val \in {NaN, "", "False", "false", "0"} THEN FALSE
    ELSE IF val \in {"True", "true", "1"} THEN TRUE
    ELSE FALSE

\* to_csv of the boolean 'processed' column
WriteBool(b) == IF b THEN "True" ELSE "False"

\* mapping_df['processed'] after the column was initialised or converted
ReadProcessed(column) ==
    IF column = <<>> THEN [r \in Rows |-> FALSE]
    ELSE [r \in Rows |-> convert_to_bool(column[r])]

\* mapping_df[mapping_df['processed'] == False], as row indexes in order
RECURSIVE UnprocessedFrom(_, _)
UnprocessedFrom(flags, r) ==
    IF r > Len(flags) THEN <<>>
    ELSE (IF flags[r] = FALSE THEN <<r>> ELSE <<>>)
         \o UnprocessedFrom(flags, r + 1)

unprocessed_rows(flags) == UnprocessedFrom(flags, 1)

\* row r is persisted as processed: its cell encodes true
PersistedTrue(r) ==
    diskProcessed # <<>> /\ diskProcessed[r] \in {"True", "true", "1"}

\* a replace loop that gives up one attempt early
max_attempts_one_less == 3 - 1

\* the replace loop's bound
max_attempts == 3

\* an update_file_ids without the check: no path counts as processed
AlreadyProcessed_never(file_path) == FALSE

\* file_path in self.processed_files
AlreadyProcessed(file_path) == file_path \in processed_files

\* the row and the file the loop is at
CurRow  == unprocessed[pos]

NoEnd == [end |-> "none", failed |-> 0]

----------------------------------------------------------------------------
\* Tables on disk.

\* a table as far as the engine touches it: the identifier column as it is
\* written in the file, the names of the columns, the consent_status column
NoTable == [ids |-> <<>>, cols |-> {}, consent |-> <<>>]

\* a source file as the user supplies it
SourceTable(column) == [ids |-> column, cols |-> {"id", "data"}, consent |-> <<>>]

\* the source_id cell of the configuration rows: the identifier column
source_id == "id"

\* a source file that has no column of that name
TableWithoutId == [ids |-> <<>>, cols |-> {"patient", "data"}, consent |-> <<>>]

\* an update_file_ids without the check of the identifier column
HasIdColumn_unchecked(table) == TRUE

\* id_column in df.columns
HasIdColumn(table) == source_id \in table.cols

\* the cells pandas parses as integers
Numeric == {"01", "2"}

\* str(int(cell))
ParseInt(cell) == IF cell = "01" THEN "1" ELSE cell

\* read_file followed by astype(str) on a column: pd.read_csv infers the
\* type, and a column whose cells are all integers is read as integers
read_column(column) ==
    IF column # <<>> /\ \A i \in DOMAIN column : column[i] \in Numeric
    THEN [i \in DOMAIN column |-> ParseInt(column[i])]
    ELSE column

\* the relationship file read as a source file: its first mapping_id column
\* is the identifier column
RelationshipFile(table) ==
    [ids |-> [i \in DOMAIN table |-> table[i].cells[1]],
     cols |-> {"id", "other_id"}, consent |-> <<>>]

\* the paths of the mapping configuration: find_files accepts a path only
\* when it is absolute and exists
Dir == "/data/"
FileName(f) ==
    IF config.shared_name THEN "t.csv" ELSE "t" \o ToString(f) \o ".csv"
\* with a shared base name each file is in a directory of its own
DirOf(f) ==
    IF config.shared_name THEN "/data" \o ToString(f) \o "/" ELSE Dir
source_file(f) == DirOf(f) \o FileName(f)

\* next(f for f in files if f.name == Path(source_file).name): the first of
\* the resolved files whose base name is that of the row's source_file
source_path(r) ==
    files[CHOOSE i \in DOMAIN files :
            /\ FileName(files[i]) = FileName(rowFile[r])
            /\ \A j \in DOMAIN files :
                   j < i => FileName(files[j]) # FileName(rowFile[r])]

\* the file the loop is at
CurFile == source_path(CurRow)

\* a configuration row without id_type and source_context columns
NoKey == [id_type |-> None, source_context |-> None]

\* the original_id column of the lookup table on disk
LookupIds(file) == {file.rows[i].original_id : i \in DOMAIN file.rows}

\* the columns process_all_files requires of the mapping configuration
required_cols == <<"mapping_file", "mapping_id", "source_file", "source_id">>

\* all(col in mapping_df.columns for col in required_cols)
HasRequiredCols ==
    \A i \in DOMAIN required_cols : required_cols[i] \in config.cols

\* find_files resolves mapping_df['mapping_file'].iloc[0], the cell of the
\* first row, and no other mapping_file cell
MappingFileResolved == config.rel[1]

\* a mapping configuration that exists, has the required columns, and whose
\* rows all name a relationship file that exists
GoodConfig(n) ==
    [exists |-> TRUE,
     cols |-> {required_cols[i] : i \in DOMAIN required_cols},
     rel |-> [r \in 1..n |-> TRUE],
     shared_name |-> FALSE]

\* no call of resolve_id_conflicts has been made
NoCall == [id_value |-> None, id_type |-> None, source_context |-> None,
           ret |-> None]

\* no value has been passed to progress_callback yet
NoProgress == -1

----------------------------------------------------------------------------
\* Initial states.

ConsentCells == {"granted", "revoked"}

\* the rows a relationship table may hold: one cell per mapping_id column
RelRows == [cells : (Ids \cup {NaN}) \X (Ids \cup {NaN}), consent : ConsentCells]

\* the relationship table of the repository's tests, with consent granted
SampleTable == [i \in 1..MaxRelRows |-> [cells |-> <<"A", "B">>, consent |-> "granted"]]

\* cells a user may have left in the 'processed' column
InitCells == {"True", "1", "yes"}

InitMemory ==
    /\ pc = "none"
    /\ is_running = FALSE
    /\ hash_table = <<>>
    /\ not_hashed_ids = {}
    /\ processed_files = {}
    /\ memProcessed = [r \in Rows |-> FALSE]
    /\ unprocessed = <<>>
    /\ pos = 1
    /\ id_mapping = <<>>
    /\ consent_status_mapping = <<>>
    /\ person_mapping = <<>>
    /\ attempt = 0

InitHistory ==
    /\ run = 0
    /\ issued = {}
    /\ assigned = {}
    /\ rewritten = {}
    /\ outcomes = <<>>
    /\ entryContent = "orig"
    /\ startFlags = {r \in Rows : PersistedTrue(r)}
    /\ touched = {}
    /\ attempted = {}
    /\ lastEnd = NoEnd
    /\ prevRun = NoEnd
    /\ stopRequested = FALSE
    /\ lookupAtStart = {}
    /\ entryTable = NoTable
    /\ progress = NoProgress
    /\ files = <<>>
    /\ resolved = NoCall
    /\ completion = "none"

InitOutputs ==
    /\ tempFile = "absent"
    /\ strayTemp = FALSE
    /\ training = [f \in Files |-> [exists |-> FALSE, rows |-> <<>>]]
    /\ backup = [f \in Files |-> "absent"]
    /\ lookupFile = [exists |-> FALSE, rows |-> <<>>]
    /\ tempTable = NoTable

\* every source file exists
InitFiles ==
    /\ fs = [f \in Files |-> "orig"]
    /\ InitOutputs

\* the configuration names a source file that does not exist: the first
MissingFile ==
    /\ fs = [f \in Files |-> IF f = 1 THEN "absent" ELSE "orig"]
    /\ primary = [f \in Files |-> IF f = 1 THEN NoTable
                                  ELSE SourceTable(FileColumn)]
    /\ relIsFile = 0
    /\ InitOutputs

\* the relationship file is none of the source files, and every source file
\* holds the identifier column FileColumn
PlainFiles ==
    /\ primary = [f \in Files |-> SourceTable(FileColumn)]
    /\ relIsFile = 0

\* the mapping configurations: a good one; one that does not exist; one that
\* lacks a required column; one with a row whose relationship file is missing
Configs ==
    {GoodConfig(MaxRows), [GoodConfig(MaxRows) EXCEPT !.exists = FALSE]}
    \cup {[GoodConfig(MaxRows) EXCEPT !.cols = @ \ {required_cols[i]}] :
             i \in DOMAIN required_cols}
    \cup {[GoodConfig(MaxRows) EXCEPT !.rel[r] = FALSE] : r \in InitRows}

\* any configuration (the files are interchangeable, so the first row names
\* the first file), the sample relationship table; the source files all
\* exist, or the first is missing
Init ==
    /\ relTable = SampleTable
    /\ rowFile \in {rf \in [InitRows -> Files] : rf[1] = 1}
    /\ diskProcessed \in {<<>>} \cup [InitRows -> InitCells]
    /\ (InitFiles /\ PlainFiles) \/ MissingFile
    /\ InitMemory /\ InitHistory
    /\ rowKey = [r \in InitRows |-> NoKey]
    /\ config \in Configs
    /\ \/ config = GoodConfig(MaxRows)
       \/ /\ rowFile = [r \in InitRows |-> 1]
          /\ diskProcessed = <<>>
          /\ fs[1] = "orig"

\* any relationship table, every configuration row naming the first file
InitMap ==
    /\ relTable \in [1..MaxRelRows -> RelRows]
    /\ rowFile = [r \in InitRows |-> 1]
    /\ diskProcessed = <<>>
    /\ InitFiles /\ PlainFiles /\ InitMemory /\ InitHistory
    /\ rowKey = [r \in InitRows |-> NoKey]
    /\ config = GoodConfig(MaxRows)

\* the relationship table of the repository's tests as it is: it has no
\* consent_status column, and row.get('consent_status', 'none') gives 'none'
FixtureTable == [i \in 1..MaxRelRows |-> [cells |-> <<"A", "B">>, consent |-> "none"]]

\* a column of identifiers that are digits only
NumericColumn == <<"01", "2">>
Columns == {FileColumn, NumericColumn}

\* the source files hold either column; or the configuration lists the
\* relationship file of the tests as its first source file
InitFile ==
    /\ rowFile \in {rf \in [InitRows -> Files] : rf[1] = 1}
    /\ diskProcessed = <<>>
    /\ \/ /\ relIsFile = 0
          /\ relTable = SampleTable
          /\ primary \in [Files -> {SourceTable(c) : c \in Columns}]
       \/ /\ relIsFile = 1
          /\ relTable = FixtureTable
          /\ primary = [f \in Files |->
                           IF f = 1 THEN RelationshipFile(FixtureTable)
                           ELSE SourceTable(FileColumn)]
    /\ InitFiles /\ InitMemory /\ InitHistory
    /\ rowKey = [r \in InitRows |-> NoKey]
    /\ config = GoodConfig(MaxRows)

\* the rows a person-centric relationship table may hold
PersonRows == [person_id : Persons, id_value : Ids, id_type : IdTypes,
               consent : ConsentCells]

\* the id_type and source_context cells of a configuration row (None: the
\* configuration has no such column)
RowKeys == [id_type : IdTypes \cup {None}, source_context : Contexts \cup {None}]

\* any person-centric relationship table, every configuration row naming
\* the first file, with or without id_type and source_context columns
InitPerson ==
    /\ relTable \in [1..MaxRelRows -> PersonRows]
    /\ rowFile = [r \in InitRows |-> 1]
    /\ diskProcessed = <<>>
    /\ InitFiles /\ PlainFiles /\ InitMemory /\ InitHistory
    /\ rowKey \in {[r \in InitRows |-> k] : k \in RowKeys}
    /\ config = GoodConfig(MaxRows)

\* configurations of up to MaxProgressRows rows, each row naming any of the
\* source files, with the sample relationship table
InitProgress ==
    /\ relTable = SampleTable
    /\ \E n \in 1..MaxProgressRows :
          /\ rowFile \in [1..n -> Files]
          /\ rowKey = [r \in 1..n |-> NoKey]
          /\ config = GoodConfig(n)
    /\ diskProcessed = <<>>
    /\ InitFiles /\ PlainFiles /\ InitMemory /\ InitHistory

\* the configurations of Init whose rows are all unprocessed: the mapping
\* configuration as the user writes it, without a 'processed' column
InitResume == Init /\ diskProcessed = <<>>

\* relationship tables whose cells may hold an identifier that is already a
\* SHA-256 digest, here the digest of Z
HashCells == {"A", sha256("Z")}
HashRows == [cells : HashCells \X HashCells, consent : {"granted"}]

\* any such relationship table, every configuration row naming the first file
InitHash ==
    /\ relTable \in [1..MaxRelRows -> HashRows]
    /\ rowFile = [r \in InitRows |-> 1]
    /\ diskProcessed = <<>>
    /\ InitFiles /\ PlainFiles /\ InitMemory /\ InitHistory
    /\ rowKey = [r \in InitRows |-> NoKey]
    /\ config = GoodConfig(MaxRows)

\* consent cells as a user may write them: a valid status, a valid status
\* in another case, a word that is no status, an empty cell
ConsentInputs == {"granted", "Granted", "maybe", NaN}

\* the identifier and the person of row i of these tables
RowId(i) == FileColumn[((i - 1) % Len(FileColumn)) + 1]
RowPerson(i) == PersonOrder[((i - 1) % Len(PersonOrder)) + 1]

\* a relationship table of either schema with one identifier per row, each
\* row another person, and any consent cells
InitConsent ==
    /\ \E c \in [1..MaxRelRows -> ConsentInputs] :
          \/ relTable = [i \in 1..MaxRelRows |->
                            [cells |-> <<RowId(i), NaN>>, consent |-> c[i]]]
          \/ relTable = [i \in 1..MaxRelRows |->
                            [person_id |-> RowPerson(i),
                             id_value |-> RowId(i), id_type |-> "MRN",
                             consent |-> c[i]]]
    /\ rowFile = [r \in InitRows |-> 1]
    /\ diskProcessed = <<>>
    /\ InitFiles /\ PlainFiles /\ InitMemory /\ InitHistory
    /\ rowKey = [r \in InitRows |-> NoKey]
    /\ config = GoodConfig(MaxRows)

\* source files with and without the identifier column
InitColumn ==
    /\ relTable = SampleTable
    /\ rowFile \in {rf \in [InitRows -> Files] : rf[1] = 1}
    /\ diskProcessed = <<>>
    /\ primary \in [Files -> {SourceTable(FileColumn), TableWithoutId}]
    /\ relIsFile = 0
    /\ InitFiles /\ InitMemory /\ InitHistory
    /\ rowKey = [r \in InitRows |-> NoKey]
    /\ config = GoodConfig(MaxRows)

\* priorities, effective dates (as day numbers) and contexts of the rows of
\* a person-centric relationship table
Priorities == {1, 2}
Dates == {1, 2}
RowContexts == {"lab", "icu"}

\* rows of person-centric tables in which persons share one identifier
ConflictRows == [person_id : Persons, id_value : {"A"}, id_type : IdTypes,
                 consent : ConsentCells, priority : Priorities,
                 effective_date : Dates, source_context : {"lab"}]

\* any such table, every configuration row naming the first file
InitConflict ==
    /\ relTable \in [1..MaxRelRows -> ConflictRows]
    /\ rowFile = [r \in InitRows |-> 1]
    /\ diskProcessed = <<>>
    /\ InitFiles /\ PlainFiles /\ InitMemory /\ InitHistory
    /\ rowKey = [r \in InitRows |-> NoKey]
    /\ config = GoodConfig(MaxRows)

\* rows of person-centric tables for the calls of resolve_id_conflicts
ResolveRows == [person_id : Persons, id_value : {"A"}, id_type : IdTypes,
                consent : {"granted"}, priority : Priorities,
                effective_date : Dates, source_context : RowContexts]

\* the identifiers and contexts resolve_id_conflicts is asked for: one
\* identifier is in no table, one context in no row
QueryIds == {"A", "B"}
QueryContexts == {None, "", "lab", "icu", "er"}

InitResolve ==
    /\ relTable \in [1..MaxRelRows -> ResolveRows]
    /\ rowFile = [r \in InitRows |-> 1]
    /\ diskProcessed = <<>>
    /\ InitFiles /\ PlainFiles /\ InitMemory /\ InitHistory
    /\ rowKey = [r \in InitRows |-> NoKey]
    /\ config = GoodConfig(MaxRows)

\* a legacy relationship table with one identifier per row and any consent
\* cells, for runs between which the consent cells are edited
InitRegrant ==
    /\ \E c \in [1..MaxRelRows -> ConsentCells] :
          relTable = [i \in 1..MaxRelRows |->
                         [cells |-> <<RowId(i), NaN>>, consent |-> c[i]]]
    /\ rowFile = [r \in InitRows |-> 1]
    /\ diskProcessed = <<>>
    /\ InitFiles /\ PlainFiles /\ InitMemory /\ InitHistory
    /\ rowKey = [r \in InitRows |-> NoKey]
    /\ config = GoodConfig(MaxRows)

\* a configuration whose rows name files of one base name in different
\* directories, each row another file
InitNames ==
    /\ relTable = SampleTable
    /\ rowFile = [r \in InitRows |-> ((r - 1) % MaxFiles) + 1]
    /\ diskProcessed = <<>>
    /\ InitFiles /\ PlainFiles /\ InitMemory /\ InitHistory
    /\ rowKey = [r \in InitRows |-> NoKey]
    /\ config = [GoodConfig(MaxRows) EXCEPT !.shared_name = TRUE]

----------------------------------------------------------------------------
\* The engine.

\* IDProcessor(): a new instance, its cache loaded from the lookup table
Construct ==
    /\ pc \in {"none", "exited", "launched"}
    /\ run < MaxRuns
    /\ pc' = "ready"
    /\ is_running' = FALSE
    /\ hash_table' = _load_existing_lookup_table(lookupFile)
    /\ not_hashed_ids' = {}
    /\ processed_files' = {}
    /\ memProcessed' = [r \in Rows |-> FALSE]
    /\ unprocessed' = <<>>
    /\ pos' = 1
    /\ id_mapping' = <<>>
    /\ consent_status_mapping' = <<>>
    /\ person_mapping' = <<>>
    /\ attempt' = 0
    /\ stopRequested' = (pc = "launched" /\ stopRequested)
    /\ UNCHANGED diskVars
    /\ UNCHANGED <<run, issued, assigned, rewritten, outcomes, entryContent,
                   startFlags, touched, attempted, lastEnd, prevRun,
                   lookupAtStart, entryTable>>
    /\ UNCHANGED <<progress, config>>
    /\ UNCHANGED <<files, resolved, completion>>

\* the source files of the configuration in ascending order
RECURSIVE Ascending(_)
Ascending(S) ==
    IF S = {} THEN <<>>
    ELSE LET x == CHOOSE y \in S : \A z \in S : y <= z
         IN  <<x>> \o Ascending(S \ {x})

\* list(files): the order of the elements of a Python set of paths is
\* arbitrary. It matters only to next(f for f in files if f.name == ...),
\* which tells files of one base name apart by it, so every order is
\* explored when base names are shared and one order otherwise.
FileOrders ==
    LET S == {rowFile[r] : r \in Rows}
    IN  IF config.shared_name
        THEN {o \in [1..Cardinality(S) -> S] :
                 \A i, j \in 1..Cardinality(S) : o[i] = o[j] => i = j}
        ELSE {Ascending(S)}

\* what every start of process_all_files records
StartHistory ==
    /\ run' = run + 1
    /\ startFlags' = {r \in Rows : PersistedTrue(r)}
    /\ touched' = IF diskProcessed = <<>> THEN {<<"config", 0>>} ELSE {}
    /\ attempted' = {}
    /\ prevRun' = lastEnd
    /\ outcomes' = <<>>
    /\ lookupAtStart' = LookupIds(lookupFile)
    /\ UNCHANGED <<issued, assigned, rewritten, entryContent>>

\* the mapping file as process_all_files leaves it after reading it: a
\* missing 'processed' column is added, all False, and saved
SavedAtStart ==
    IF diskProcessed = <<>> THEN [r \in Rows |-> WriteBool(FALSE)]
    ELSE diskProcessed

\* process_all_files up to the backups, with unprocessed rows to work on
Start ==
    /\ pc = "ready"
    /\ config.exists
    /\ HasRequiredCols
    /\ MappingFileResolved
    /\ \A r \in Rows : fs[rowFile[r]] # "absent"
    /\ unprocessed_rows(ReadProcessed(diskProcessed)) # <<>>
    /\ is_running' = TRUE
    /\ diskProcessed' = SavedAtStart
    /\ memProcessed' = ReadProcessed(diskProcessed)
    /\ unprocessed' = unprocessed_rows(ReadProcessed(diskProcessed))
    /\ pc' = "backup"
    /\ StartHistory
    /\ lastEnd' = lastEnd
    /\ UNCHANGED <<relTable, rowFile, fs, tempFile, strayTemp, training,
                   backup, lookupFile>>
    /\ UNCHANGED <<hash_table, not_hashed_ids, processed_files, pos,
                   id_mapping, consent_status_mapping, person_mapping, attempt>>
    /\ UNCHANGED <<primary, tempTable, relIsFile, rowKey>>
    /\ UNCHANGED <<stopRequested, entryTable>>
    /\ progress' = NoProgress
    /\ UNCHANGED config
    /\ files' \in FileOrders
    /\ UNCHANGED <<resolved, completion>>

\* process_all_files when every row is marked processed: the early return
StartNothing ==
    /\ pc = "ready"
    /\ config.exists
    /\ HasRequiredCols
    /\ MappingFileResolved
    /\ \A r \in Rows : fs[rowFile[r]] # "absent"
    /\ unprocessed_rows(ReadProcessed(diskProcessed)) = <<>>
    /\ is_running' = TRUE
    /\ diskProcessed' = SavedAtStart
    /\ memProcessed' = ReadProcessed(diskProcessed)
    /\ unprocessed' = <<>>
    /\ pc' = "exited"
    /\ StartHistory
    /\ lastEnd' = [end |-> "nothing", failed |-> 0]
    /\ UNCHANGED <<relTable, rowFile, fs, tempFile, strayTemp, training,
                   backup, lookupFile>>
    /\ UNCHANGED <<hash_table, not_hashed_ids, processed_files, pos,
                   id_mapping, consent_status_mapping, person_mapping, attempt>>
    /\ UNCHANGED <<primary, tempTable, relIsFile, rowKey>>
    /\ UNCHANGED <<stopRequested, entryTable>>
    /\ progress' = 100
    /\ UNCHANGED config
    /\ files' \in FileOrders
    /\ UNCHANGED <<resolved, completion>>

\* process_all_files when mapping_path does not exist: ValueError raised
\* before anything is read
StartNoConfig ==
    /\ pc = "ready"
    /\ ~config.exists
    /\ is_running' = TRUE
    /\ pc' = "exited"
    /\ run' = run + 1
    /\ startFlags' = {}
    /\ touched' = {}
    /\ attempted' = {}
    /\ prevRun' = lastEnd
    /\ outcomes' = <<>>
    /\ lookupAtStart' = LookupIds(lookupFile)
    /\ lastEnd' = [end |-> "config_error", failed |-> 0]
    /\ progress' = NoProgress
    /\ UNCHANGED <<diskVars, config>>
    /\ UNCHANGED <<hash_table, not_hashed_ids, processed_files, pos,
                   id_mapping, consent_status_mapping, person_mapping, attempt,
                   memProcessed, unprocessed>>
    /\ UNCHANGED <<issued, assigned, rewritten, entryContent, stopRequested,
                   entryTable>>
    /\ UNCHANGED <<files, resolved, completion>>

\* process_all_files when the mapping configuration lacks a required
\* column: ValueError raised after the 'processed' column was saved
StartMissingColumns ==
    /\ pc = "ready"
    /\ config.exists
    /\ ~HasRequiredCols
    /\ is_running' = TRUE
    /\ diskProcessed' = SavedAtStart
    /\ memProcessed' = ReadProcessed(diskProcessed)
    /\ unprocessed' = <<>>
    /\ pc' = "exited"
    /\ StartHistory
    /\ lastEnd' = [end |-> "config_error", failed |-> 0]
    /\ progress' = NoProgress
    /\ UNCHANGED <<relTable, rowFile, fs, tempFile, strayTemp, training,
                   backup, lookupFile>>
    /\ UNCHANGED <<hash_table, not_hashed_ids, processed_files, pos,
                   id_mapping, consent_status_mapping, person_mapping, attempt>>
    /\ UNCHANGED <<primary, tempTable, relIsFile, rowKey>>
    /\ UNCHANGED <<stopRequested, entryTable, config>>
    /\ UNCHANGED <<files, resolved, completion>>

\* process_all_files when find_files does not find the relationship file of
\* the first row or a source file: ValueError raised before the try block
StartMissingFile ==
    /\ pc = "ready"
    /\ config.exists
    /\ HasRequiredCols
    /\ \/ ~MappingFileResolved
       \/ \E r \in Rows : fs[rowFile[r]] = "absent"
    /\ is_running' = TRUE
    /\ diskProcessed' = SavedAtStart
    /\ memProcessed' = ReadProcessed(diskProcessed)
    /\ unprocessed' = <<>>
    /\ pc' = "exited"
    /\ StartHistory
    /\ lastEnd' = [end |-> "config_error", failed |-> 0]
    /\ UNCHANGED <<relTable, rowFile, fs, tempFile, strayTemp, training,
                   backup, lookupFile>>
    /\ UNCHANGED <<hash_table, not_hashed_ids, processed_files, pos,
                   id_mapping, consent_status_mapping, person_mapping, attempt>>
    /\ UNCHANGED <<primary, tempTable, relIsFile, rowKey>>
    /\ UNCHANGED <<stopRequested, entryTable>>
    /\ progress' = NoProgress
    /\ UNCHANGED config
    /\ UNCHANGED <<files, resolved, completion>>

\* mapping_df['mapping_file'].iloc[0]: the path of the relationship file
mapping_file ==
    IF relIsFile = 0 THEN Dir \o "rel.csv" ELSE source_file(relIsFile)

\* source_path.name != mapping_file, the test meant to skip the relationship
\* file: the name of a path is compared with a path that is absolute, so it
\* holds for every file of a run that has passed find_files
NotMappingFile(f) == FileName(f) # mapping_file

\* len(files): find_files returns the set of the paths it resolved
total_files ==
    Cardinality({mapping_file} \cup {source_file(rowFile[r]) : r \in Rows})

\* int((i / total_files) * 20), the value passed after the i-th backup
backup_progress(i, n) == (i * 20) \div n

\* 25 + int((i + 1) / total_rows * 65), the value passed after the i-th row
row_progress(i, n) == 25 + ((i + 1) * 65) \div n

\* the files of the unprocessed rows that pass the test
UnprocessedFiles ==
    {f \in {rowFile[unprocessed[i]] : i \in DOMAIN unprocessed} :
        NotMappingFile(f)}

\* the backups: create_backup copies each unprocessed row's source file
Backup ==
    /\ pc = "backup"
    /\ backup' = [f \in Files |-> IF f \in UnprocessedFiles THEN fs[f]
                                  ELSE backup[f]]
    /\ touched' = touched \cup {<<"backup", f>> : f \in UnprocessedFiles}
    /\ pc' = "mapping"
    /\ UNCHANGED <<relTable, rowFile, diskProcessed, fs, tempFile, strayTemp,
                   training, lookupFile>>
    /\ UNCHANGED <<is_running, hash_table, not_hashed_ids, processed_files,
                   memProcessed, unprocessed, pos, id_mapping,
                   consent_status_mapping, person_mapping, attempt>>
    /\ UNCHANGED <<run, issued, assigned, rewritten, outcomes, entryContent,
                   startFlags, attempted, lastEnd, prevRun>>
    /\ UNCHANGED <<primary, tempTable, relIsFile, rowKey>>
    /\ UNCHANGED <<stopRequested, lookupAtStart, entryTable>>
    /\ progress' = backup_progress(Len(unprocessed) - 1, total_files)
    /\ UNCHANGED config
    /\ UNCHANGED <<files, resolved, completion>>

\* the initial mapping pass: create_id_mapping(mapping_file_path, mapping_df, None)
MappingPass ==
    /\ pc = "mapping"
    /\ ~create_id_mapping_raises(relTable)
    /\ LET m == create_id_mapping(relTable, hash_table, None)
       IN  /\ id_mapping' = m.idm
           /\ consent_status_mapping' = m.csm
           /\ person_mapping' = m.pm
           /\ hash_table' = m.table
           /\ issued' = issued \cup m.calls
           /\ assigned' = assigned \cup DictPairs(m.idm)
    /\ pos' = 1
    /\ pc' = "loop"
    /\ UNCHANGED diskVars
    /\ UNCHANGED <<is_running, not_hashed_ids, processed_files, memProcessed,
                   unprocessed, attempt>>
    /\ UNCHANGED <<run, rewritten, outcomes, entryContent, startFlags,
                   touched, attempted, lastEnd, prevRun>>
    /\ UNCHANGED <<stopRequested, lookupAtStart, entryTable>>
    /\ progress' = 25
    /\ UNCHANGED config
    /\ UNCHANGED <<files, resolved, completion>>

\* the initial mapping pass raises: the exception leaves process_all_files
\* through its except and finally clauses (the memory of the instance, which
\* no later run uses, is left as it was before the pass)
MappingFail ==
    /\ pc = "mapping"
    /\ create_id_mapping_raises(relTable)
    /\ is_running' = FALSE
    /\ lastEnd' = [end |-> "mapping_error", failed |-> 0]
    /\ pc' = "exited"
    /\ UNCHANGED diskVars
    /\ UNCHANGED <<hash_table, not_hashed_ids, processed_files, memProcessed,
                   unprocessed, pos, id_mapping, consent_status_mapping,
                   person_mapping, attempt>>
    /\ UNCHANGED <<run, issued, assigned, rewritten, outcomes, entryContent,
                   startFlags, touched, attempted, prevRun, stopRequested,
                   lookupAtStart, entryTable>>
    /\ UNCHANGED <<progress, config>>
    /\ UNCHANGED <<files, resolved, completion>>

----------------------------------------------------------------------------
\* The loop over the unprocessed rows.

\* the loop head: a next row and is_running is set
LoopEnter ==
    /\ pc = "loop"
    /\ pos <= Len(unprocessed)
    /\ is_running
    /\ pc' = "call"
    /\ UNCHANGED <<relTable, rowFile, diskProcessed, fs, tempFile, strayTemp,
                   training, backup, lookupFile, is_running, hash_table,
                   not_hashed_ids, processed_files, memProcessed,
                   unprocessed, pos, id_mapping, consent_status_mapping,
                   person_mapping, attempt, run, issued, assigned, rewritten,
                   outcomes, entryContent, startFlags, touched, attempted,
                   lastEnd, prevRun>>
    /\ UNCHANGED <<primary, tempTable, relIsFile, rowKey>>
    /\ UNCHANGED <<stopRequested, lookupAtStart, entryTable>>
    /\ UNCHANGED <<progress, config>>
    /\ UNCHANGED <<files, resolved, completion>>

\* the loop head: 'Processing stopped by user', break
LoopBreak ==
    /\ pc = "loop"
    /\ pos <= Len(unprocessed)
    /\ ~is_running
    /\ pc' = "lookup"
    /\ UNCHANGED <<relTable, rowFile, diskProcessed, fs, tempFile, strayTemp,
                   training, backup, lookupFile, is_running, hash_table,
                   not_hashed_ids, processed_files, memProcessed,
                   unprocessed, pos, id_mapping, consent_status_mapping,
                   person_mapping, attempt, run, issued, assigned, rewritten,
                   outcomes, entryContent, startFlags, touched, attempted,
                   lastEnd, prevRun>>
    /\ UNCHANGED <<primary, tempTable, relIsFile, rowKey>>
    /\ UNCHANGED <<stopRequested, lookupAtStart, entryTable>>
    /\ UNCHANGED <<progress, config>>
    /\ UNCHANGED <<files, resolved, completion>>

\* the loop has run through every unprocessed row
LoopEnd ==
    /\ pc = "loop"
    /\ pos > Len(unprocessed)
    /\ pc' = "lookup"
    /\ UNCHANGED <<relTable, rowFile, diskProcessed, fs, tempFile, strayTemp,
                   training, backup, lookupFile, is_running, hash_table,
                   not_hashed_ids, processed_files, memProcessed,
                   unprocessed, pos, id_mapping, consent_status_mapping,
                   person_mapping, attempt, run, issued, assigned, rewritten,
                   outcomes, entryContent, startFlags, touched, attempted,
                   lastEnd, prevRun>>
    /\ UNCHANGED <<primary, tempTable, relIsFile, rowKey>>
    /\ UNCHANGED <<stopRequested, lookupAtStart, entryTable>>
    /\ UNCHANGED <<progress, config>>
    /\ UNCHANGED <<files, resolved, completion>>

\* the file-specific mappings of the current row: when the configuration has
\* a source_context column, create_id_mapping is run again with the row's
\* context and its result is merged into the mappings
MergeForRow ==
    LET ctx == rowKey[CurRow].source_context
        m   == create_id_mapping(relTable, hash_table, ctx)
    IN  IF ctx # None
        THEN /\ id_mapping' = DictUpdate(id_mapping, m.idm)
             /\ consent_status_mapping' = DictUpdate(consent_status_mapping, m.csm)
             /\ hash_table' = m.table
             /\ issued' = issued \cup m.calls
             /\ assigned' = assigned \cup DictPairs(m.idm)
        ELSE UNCHANGED <<id_mapping, consent_status_mapping, hash_table,
                         issued, assigned>>

\* update_file_ids is called and returns at once: processing was stopped
CallSkipStopped ==
    /\ pc = "call"
    /\ NotMappingFile(CurFile)
    /\ ~is_running
    /\ attempted' = attempted \cup {CurRow}
    /\ outcomes' = <<>>
    /\ MergeForRow
    /\ pc' = "mark"
    /\ UNCHANGED <<relTable, rowFile, diskProcessed, fs, tempFile, strayTemp,
                   training, backup, lookupFile, is_running, not_hashed_ids,
                   processed_files, memProcessed, unprocessed, pos,
                   person_mapping, attempt, run, rewritten, entryContent,
                   startFlags, touched, lastEnd, prevRun>>
    /\ UNCHANGED <<primary, tempTable, relIsFile, rowKey>>
    /\ UNCHANGED <<stopRequested, lookupAtStart, entryTable>>
    /\ UNCHANGED <<progress, config>>
    /\ UNCHANGED <<files, resolved, completion>>

\* update_file_ids is called and returns at once: the file was already
\* processed by this instance
CallSkipProcessed ==
    /\ pc = "call"
    /\ NotMappingFile(CurFile)
    /\ is_running
    /\ AlreadyProcessed(CurFile)
    /\ attempted' = attempted \cup {CurRow}
    /\ outcomes' = <<>>
    /\ MergeForRow
    /\ pc' = "mark"
    /\ UNCHANGED <<relTable, rowFile, diskProcessed, fs, tempFile, strayTemp,
                   training, backup, lookupFile, is_running, not_hashed_ids,
                   processed_files, memProcessed, unprocessed, pos,
                   person_mapping, attempt, run, rewritten, entryContent,
                   startFlags, touched, lastEnd, prevRun>>
    /\ UNCHANGED <<primary, tempTable, relIsFile, rowKey>>
    /\ UNCHANGED <<stopRequested, lookupAtStart, entryTable>>
    /\ UNCHANGED <<progress, config>>
    /\ UNCHANGED <<files, resolved, completion>>

\* update_file_ids is called and goes on to read the file
CallEnter ==
    /\ pc = "call"
    /\ NotMappingFile(CurFile)
    /\ is_running
    /\ ~AlreadyProcessed(CurFile)
    /\ HasIdColumn(primary[CurFile])
    /\ attempted' = attempted \cup {CurRow}
    /\ entryContent' = fs[CurFile]
    /\ entryTable' = primary[CurFile]
    /\ outcomes' = <<>>
    /\ MergeForRow
    /\ pc' = "write"
    /\ UNCHANGED <<relTable, rowFile, diskProcessed, fs, tempFile, strayTemp,
                   training, backup, lookupFile, is_running, not_hashed_ids,
                   processed_files, memProcessed, unprocessed, pos,
                   person_mapping, attempt, run, rewritten, startFlags,
                   touched, lastEnd, prevRun>>
    /\ UNCHANGED <<primary, tempTable, relIsFile, rowKey>>
    /\ UNCHANGED <<stopRequested, lookupAtStart>>
    /\ UNCHANGED <<progress, config>>
    /\ UNCHANGED <<files, resolved, completion>>

\* update_file_ids is called, reads the file and does not find the
\* identifier column: ValueError, raised before anything is written
CallMissingColumn ==
    /\ pc = "call"
    /\ NotMappingFile(CurFile)
    /\ is_running
    /\ ~AlreadyProcessed(CurFile)
    /\ ~HasIdColumn(primary[CurFile])
    /\ attempted' = attempted \cup {CurRow}
    /\ entryContent' = fs[CurFile]
    /\ entryTable' = primary[CurFile]
    /\ outcomes' = <<>>
    /\ MergeForRow
    /\ pc' = "raised"
    /\ UNCHANGED <<relTable, rowFile, diskProcessed, fs, tempFile, strayTemp,
                   training, backup, lookupFile, is_running, not_hashed_ids,
                   processed_files, memProcessed, unprocessed, pos,
                   person_mapping, attempt, run, rewritten, startFlags,
                   touched, lastEnd, prevRun>>
    /\ UNCHANGED <<primary, tempTable, relIsFile, rowKey>>
    /\ UNCHANGED <<stopRequested, lookupAtStart>>
    /\ UNCHANGED <<progress, config>>
    /\ UNCHANGED <<files, resolved, completion>>

\* update_file_ids from reading the file to the sync: the consent column, the
\* not-hashed identifiers, the temporary file and the training extract
WriteOutputs ==
    /\ pc = "write"
    /\ not_hashed_ids' = not_hashed_ids
           \cup NotHashed(read_column(primary[CurFile].ids), id_mapping,
                          rowKey[CurRow].id_type,
                          rowKey[CurRow].source_context)
    /\ tempFile' = "new"
    /\ tempTable' =
           [ids |-> read_column(primary[CurFile].ids),
            cols |-> primary[CurFile].cols \cup {"consent_status"},
            consent |-> ConsentColumn(read_column(primary[CurFile].ids),
                            consent_status_mapping, rowKey[CurRow].id_type,
                            rowKey[CurRow].source_context)]
    /\ training' = [training EXCEPT ![CurFile] =
           [exists |-> TRUE,
            rows |-> TrainingRows(read_column(primary[CurFile].ids),
                        consent_status_mapping, id_mapping,
                        rowKey[CurRow].id_type,
                        rowKey[CurRow].source_context)]]
    /\ touched' = touched \cup {<<"training", CurFile>>}
    /\ attempt' = 0
    /\ pc' = "remove"
    /\ UNCHANGED <<relTable, rowFile, diskProcessed, fs, strayTemp, backup,
                   lookupFile, is_running, hash_table, processed_files,
                   memProcessed, unprocessed, pos, id_mapping,
                   consent_status_mapping, person_mapping, run, issued,
                   assigned, rewritten, outcomes, entryContent, startFlags,
                   attempted, lastEnd, prevRun>>
    /\ UNCHANGED <<primary, relIsFile, rowKey>>
    /\ UNCHANGED <<stopRequested, lookupAtStart, entryTable>>
    /\ UNCHANGED <<progress, config>>
    /\ UNCHANGED <<files, resolved, completion>>

\* update_file_ids when random.randint gives the name of a file that is
\* already in the directory: to_csv(temp_path) overwrites that file, which
\* from then on is the temporary file of this call
WriteOutputsCollide ==
    /\ pc = "write"
    /\ strayTemp
    /\ strayTemp' = FALSE
    /\ not_hashed_ids' = not_hashed_ids
           \cup NotHashed(read_column(primary[CurFile].ids), id_mapping,
                          rowKey[CurRow].id_type,
                          rowKey[CurRow].source_context)
    /\ tempFile' = "new"
    /\ tempTable' =
           [ids |-> read_column(primary[CurFile].ids),
            cols |-> primary[CurFile].cols \cup {"consent_status"},
            consent |-> ConsentColumn(read_column(primary[CurFile].ids),
                            consent_status_mapping, rowKey[CurRow].id_type,
                            rowKey[CurRow].source_context)]
    /\ training' = [training EXCEPT ![CurFile] =
           [exists |-> TRUE,
            rows |-> TrainingRows(read_column(primary[CurFile].ids),
                        consent_status_mapping, id_mapping,
                        rowKey[CurRow].id_type,
                        rowKey[CurRow].source_context)]]
    /\ touched' = touched \cup {<<"training", CurFile>>}
    /\ attempt' = 0
    /\ pc' = "remove"
    /\ UNCHANGED <<relTable, rowFile, diskProcessed, fs, backup,
                   lookupFile, is_running, hash_table, processed_files,
                   memProcessed, unprocessed, pos, id_mapping,
                   consent_status_mapping, person_mapping, run, issued,
                   assigned, rewritten, outcomes, entryContent, startFlags,
                   attempted, lastEnd, prevRun>>
    /\ UNCHANGED <<primary, relIsFile, rowKey>>
    /\ UNCHANGED <<stopRequested, lookupAtStart, entryTable>>
    /\ UNCHANGED <<progress, config>>
    /\ UNCHANGED <<files, resolved, completion>>

\* an attempt: the original exists and os.remove deletes it
RemoveOk ==
    /\ pc = "remove"
    /\ fs[CurFile] # "absent"
    /\ fs' = [fs EXCEPT ![CurFile] = "absent"]
    /\ primary' = [primary EXCEPT ![CurFile] = NoTable]
    /\ touched' = touched \cup {<<"source", CurFile>>}
    /\ pc' = "rename"
    /\ UNCHANGED <<relTable, rowFile, diskProcessed, tempFile, strayTemp,
                   training, backup, lookupFile, is_running, hash_table,
                   not_hashed_ids, processed_files, memProcessed,
                   unprocessed, pos, id_mapping, consent_status_mapping,
                   person_mapping, attempt, run, issued, assigned, rewritten,
                   outcomes, entryContent, startFlags, attempted, lastEnd,
                   prevRun>>
    /\ UNCHANGED <<tempTable, relIsFile, rowKey>>
    /\ UNCHANGED <<stopRequested, lookupAtStart, entryTable>>
    /\ UNCHANGED <<progress, config>>
    /\ UNCHANGED <<files, resolved, completion>>

\* an attempt: os.remove raises
RemoveFail ==
    /\ pc = "remove"
    /\ fs[CurFile] # "absent"
    /\ outcomes' = Append(outcomes, "remove_failed")
    /\ pc' = "caught"
    /\ UNCHANGED <<relTable, rowFile, diskProcessed, fs, tempFile, strayTemp,
                   training, backup, lookupFile, is_running, hash_table,
                   not_hashed_ids, processed_files, memProcessed,
                   unprocessed, pos, id_mapping, consent_status_mapping,
                   person_mapping, attempt, run, issued, assigned, rewritten,
                   entryContent, startFlags, touched, attempted, lastEnd,
                   prevRun>>
    /\ UNCHANGED <<primary, tempTable, relIsFile, rowKey>>
    /\ UNCHANGED <<stopRequested, lookupAtStart, entryTable>>
    /\ UNCHANGED <<progress, config>>
    /\ UNCHANGED <<files, resolved, completion>>

\* an attempt: the original does not exist, nothing to delete
RemoveSkip ==
    /\ pc = "remove"
    /\ fs[CurFile] = "absent"
    /\ pc' = "rename"
    /\ UNCHANGED <<relTable, rowFile, diskProcessed, fs, tempFile, strayTemp,
                   training, backup, lookupFile, is_running, hash_table,
                   not_hashed_ids, processed_files, memProcessed,
                   unprocessed, pos, id_mapping, consent_status_mapping,
                   person_mapping, attempt, run, issued, assigned, rewritten,
                   outcomes, entryContent, startFlags, touched, attempted,
                   lastEnd, prevRun>>
    /\ UNCHANGED <<primary, tempTable, relIsFile, rowKey>>
    /\ UNCHANGED <<stopRequested, lookupAtStart, entryTable>>
    /\ UNCHANGED <<progress, config>>
    /\ UNCHANGED <<files, resolved, completion>>

\* an attempt: os.rename moves the temporary file into place; the file is
\* marked processed, the loop is left and update_file_ids returns
RenameOk ==
    /\ pc = "rename"
    /\ fs' = [fs EXCEPT ![CurFile] = tempFile]
    /\ tempFile' = "absent"
    /\ primary' = [primary EXCEPT ![CurFile] = tempTable]
    /\ tempTable' = NoTable
    /\ processed_files' = processed_files \cup {CurFile}
    /\ rewritten' = rewritten \cup {CurFile}
    /\ touched' = touched \cup {<<"source", CurFile>>}
    /\ outcomes' = Append(outcomes, "ok")
    /\ pc' = "mark"
    /\ UNCHANGED <<relTable, rowFile, diskProcessed, strayTemp, training,
                   backup, lookupFile, is_running, hash_table,
                   not_hashed_ids, memProcessed, unprocessed, pos,
                   id_mapping, consent_status_mapping, person_mapping,
                   attempt, run, issued, assigned, entryContent, startFlags,
                   attempted, lastEnd, prevRun>>
    /\ UNCHANGED <<relIsFile, rowKey>>
    /\ UNCHANGED <<stopRequested, lookupAtStart, entryTable>>
    /\ UNCHANGED <<progress, config>>
    /\ UNCHANGED <<files, resolved, completion>>

\* an attempt: os.rename raises
RenameFail ==
    /\ pc = "rename"
    /\ outcomes' = Append(outcomes, "rename_failed")
    /\ pc' = "caught"
    /\ UNCHANGED <<relTable, rowFile, diskProcessed, fs, tempFile, strayTemp,
                   training, backup, lookupFile, is_running, hash_table,
                   not_hashed_ids, processed_files, memProcessed,
                   unprocessed, pos, id_mapping, consent_status_mapping,
                   person_mapping, attempt, run, issued, assigned, rewritten,
                   entryContent, startFlags, touched, attempted, lastEnd,
                   prevRun>>
    /\ UNCHANGED <<primary, tempTable, relIsFile, rowKey>>
    /\ UNCHANGED <<stopRequested, lookupAtStart, entryTable>>
    /\ UNCHANGED <<progress, config>>
    /\ UNCHANGED <<files, resolved, completion>>

\* the handler of a failed attempt that is not the last: wait, try again
Retry ==
    /\ pc = "caught"
    /\ attempt # max_attempts - 1
    /\ attempt' = attempt + 1
    /\ pc' = "remove"
    /\ UNCHANGED <<relTable, rowFile, diskProcessed, fs, tempFile, strayTemp,
                   training, backup, lookupFile, is_running, hash_table,
                   not_hashed_ids, processed_files, memProcessed,
                   unprocessed, pos, id_mapping, consent_status_mapping,
                   person_mapping, run, issued, assigned, rewritten,
                   outcomes, entryContent, startFlags, touched, attempted,
                   lastEnd, prevRun>>
    /\ UNCHANGED <<primary, tempTable, relIsFile, rowKey>>
    /\ UNCHANGED <<stopRequested, lookupAtStart, entryTable>>
    /\ UNCHANGED <<progress, config>>
    /\ UNCHANGED <<files, resolved, completion>>

\* the handler of the last failed attempt: re-raise
GiveUp ==
    /\ pc = "caught"
    /\ attempt = max_attempts - 1
    /\ pc' = "raised"
    /\ UNCHANGED <<relTable, rowFile, diskProcessed, fs, tempFile, strayTemp,
                   training, backup, lookupFile, is_running, hash_table,
                   not_hashed_ids, processed_files, memProcessed,
                   unprocessed, pos, id_mapping, consent_status_mapping,
                   person_mapping, attempt, run, issued, assigned, rewritten,
                   outcomes, entryContent, startFlags, touched, attempted,
                   lastEnd, prevRun>>
    /\ UNCHANGED <<primary, tempTable, relIsFile, rowKey>>
    /\ UNCHANGED <<stopRequested, lookupAtStart, entryTable>>
    /\ UNCHANGED <<progress, config>>
    /\ UNCHANGED <<files, resolved, completion>>

\* the exception leaves update_file_ids (the temporary file is removed) and
\* process_all_files (is_running is cleared), and the run ends in an error
Fail ==
    /\ pc = "raised"
    /\ tempFile' = "absent"
    /\ tempTable' = NoTable
    /\ is_running' = FALSE
    /\ lastEnd' = [end |-> "error", failed |-> CurRow]
    /\ pc' = "exited"
    /\ UNCHANGED <<relTable, rowFile, diskProcessed, fs, strayTemp, training,
                   backup, lookupFile, hash_table, not_hashed_ids,
                   processed_files, memProcessed, unprocessed, pos,
                   id_mapping, consent_status_mapping, person_mapping,
                   attempt, run, issued, assigned, rewritten, outcomes,
                   entryContent, startFlags, touched, attempted, prevRun>>
    /\ UNCHANGED <<primary, relIsFile, rowKey>>
    /\ UNCHANGED <<stopRequested, lookupAtStart, entryTable>>
    /\ UNCHANGED <<progress, config>>
    /\ UNCHANGED <<files, resolved, completion>>

\* update_file_ids has returned: the row is flagged in mapping_df
Mark ==
    /\ pc = "mark"
    /\ memProcessed' = [memProcessed EXCEPT ![CurRow] = TRUE]
    /\ pc' = "save"
    /\ UNCHANGED <<relTable, rowFile, diskProcessed, fs, tempFile, strayTemp,
                   training, backup, lookupFile, is_running, hash_table,
                   not_hashed_ids, processed_files, unprocessed, pos,
                   id_mapping, consent_status_mapping, person_mapping,
                   attempt, run, issued, assigned, rewritten, outcomes,
                   entryContent, startFlags, touched, attempted, lastEnd,
                   prevRun>>
    /\ UNCHANGED <<primary, tempTable, relIsFile, rowKey>>
    /\ UNCHANGED <<stopRequested, lookupAtStart, entryTable>>
    /\ UNCHANGED <<progress, config>>
    /\ UNCHANGED <<files, resolved, completion>>

\* the mapping file is saved with the flags of mapping_df; next row
Save ==
    /\ pc = "save"
    /\ diskProcessed' = [r \in Rows |-> WriteBool(memProcessed[r])]
    /\ pos' = pos + 1
    /\ pc' = "loop"
    /\ UNCHANGED <<relTable, rowFile, fs, tempFile, strayTemp, training,
                   backup, lookupFile, is_running, hash_table,
                   not_hashed_ids, processed_files, memProcessed,
                   unprocessed, id_mapping, consent_status_mapping,
                   person_mapping, attempt, run, issued, assigned, rewritten,
                   outcomes, entryContent, startFlags, touched, attempted,
                   lastEnd, prevRun>>
    /\ UNCHANGED <<primary, tempTable, relIsFile, rowKey>>
    /\ UNCHANGED <<stopRequested, lookupAtStart, entryTable>>
    /\ progress' = row_progress(pos - 1, Len(unprocessed))
    /\ UNCHANGED config
    /\ UNCHANGED <<files, resolved, completion>>

\* after the loop: the lookup table is rebuilt and written
WriteLookup ==
    /\ pc = "lookup"
    /\ lookupFile' = [exists |-> TRUE,
                      rows |-> create_lookup_table(id_mapping,
                                  consent_status_mapping, person_mapping,
                                  hash_table, not_hashed_ids)]
    /\ touched' = touched \cup {<<"lookup", 0>>}
    /\ pc' = "finish"
    /\ UNCHANGED <<relTable, rowFile, diskProcessed, fs, tempFile, strayTemp,
                   training, backup, is_running, hash_table, not_hashed_ids,
                   processed_files, memProcessed, unprocessed, pos,
                   id_mapping, consent_status_mapping, person_mapping,
                   attempt, run, issued, assigned, rewritten, outcomes,
                   entryContent, startFlags, attempted, lastEnd,
                   prevRun>>
    /\ UNCHANGED <<primary, tempTable, relIsFile, rowKey>>
    /\ UNCHANGED <<stopRequested, lookupAtStart, entryTable>>
    /\ progress' = 100
    /\ UNCHANGED config
    /\ UNCHANGED <<files, resolved, completion>>

\* the end of process_all_files: the final status, is_running cleared
Finish ==
    /\ pc = "finish"
    /\ lastEnd' = [end |-> IF is_running THEN "complete" ELSE "stopped",
                   failed |-> 0]
    /\ is_running' = FALSE
    /\ pc' = "exited"
    /\ UNCHANGED <<relTable, rowFile, diskProcessed, fs, tempFile, strayTemp,
                   training, backup, lookupFile, hash_table, not_hashed_ids,
                   processed_files, memProcessed, unprocessed, pos,
                   id_mapping, consent_status_mapping, person_mapping,
                   attempt, run, issued, assigned, rewritten, outcomes,
                   entryContent, startFlags, touched, attempted, prevRun>>
    /\ UNCHANGED <<primary, tempTable, relIsFile, rowKey>>
    /\ UNCHANGED <<stopRequested, lookupAtStart, entryTable>>
    /\ UNCHANGED <<progress, config>>
    /\ UNCHANGED <<files, resolved, completion>>

----------------------------------------------------------------------------
\* The environment.

\* stop(), called from the thread of the user interface while a run is on
Stop ==
    /\ pc \notin {"none", "launched", "exited"}
    /\ is_running
    /\ is_running' = FALSE
    /\ stopRequested' = TRUE
    /\ UNCHANGED <<relTable, rowFile, diskProcessed, fs, tempFile, strayTemp,
                   training, backup, lookupFile, pc, hash_table,
                   not_hashed_ids, processed_files, memProcessed,
                   unprocessed, pos, id_mapping, consent_status_mapping,
                   person_mapping, attempt, run, issued, assigned, rewritten,
                   outcomes, entryContent, startFlags, touched, attempted,
                   lastEnd, prevRun>>
    /\ UNCHANGED <<primary, tempTable, relIsFile, rowKey>>
    /\ UNCHANGED <<lookupAtStart, entryTable>>
    /\ UNCHANGED <<progress, config>>
    /\ UNCHANGED <<files, resolved, completion>>

\* IDProcessorGUI.process_files: 'Start Processing' starts the worker thread
Launch ==
    /\ pc \in {"none", "exited"}
    /\ completion # "pending"
    /\ run < MaxRuns
    /\ pc' = "launched"
    /\ stopRequested' = FALSE
    /\ UNCHANGED diskVars
    /\ UNCHANGED <<is_running, hash_table, not_hashed_ids, processed_files,
                   memProcessed, unprocessed, pos, id_mapping,
                   consent_status_mapping, person_mapping, attempt>>
    /\ UNCHANGED <<run, issued, assigned, rewritten, outcomes, entryContent,
                   startFlags, touched, attempted, lastEnd, prevRun,
                   lookupAtStart, entryTable>>
    /\ UNCHANGED <<progress, config>>
    /\ completion' = "pending"
    /\ UNCHANGED <<files, resolved>>

\* IDProcessorGUI.stop_processing before the worker has constructed its
\* engine: self.processor is None, or is the engine of the previous run,
\* whose stop() is called
StopBeforeEngine ==
    /\ pc = "launched"
    /\ ~stopRequested
    /\ stopRequested' = TRUE
    /\ is_running' = IF run > 0 THEN FALSE ELSE is_running
    /\ UNCHANGED diskVars
    /\ UNCHANGED <<pc, hash_table, not_hashed_ids, processed_files,
                   memProcessed, unprocessed, pos, id_mapping,
                   consent_status_mapping, person_mapping, attempt>>
    /\ UNCHANGED <<run, issued, assigned, rewritten, outcomes, entryContent,
                   startFlags, touched, attempted, lastEnd, prevRun,
                   lookupAtStart, entryTable>>
    /\ UNCHANGED <<progress, config>>
    /\ UNCHANGED <<files, resolved, completion>>

\* IDProcessorGUI.stop_processing after the worker has constructed its
\* engine and before process_all_files has set is_running: stop() is called
StopEarly ==
    /\ pc = "ready"
    /\ ~stopRequested
    /\ stopRequested' = TRUE
    /\ is_running' = FALSE
    /\ UNCHANGED diskVars
    /\ UNCHANGED <<pc, hash_table, not_hashed_ids, processed_files,
                   memProcessed, unprocessed, pos, id_mapping,
                   consent_status_mapping, person_mapping, attempt>>
    /\ UNCHANGED <<run, issued, assigned, rewritten, outcomes, entryContent,
                   startFlags, touched, attempted, lastEnd, prevRun,
                   lookupAtStart, entryTable>>
    /\ UNCHANGED <<progress, config>>
    /\ UNCHANGED <<files, resolved, completion>>

\* the process is killed: its memory is gone, the files stay as they are
Kill ==
    /\ pc \notin {"none", "launched", "ready", "exited"}
    /\ strayTemp' = (strayTemp \/ tempFile # "absent")
    /\ tempFile' = "absent"
    /\ tempTable' = NoTable
    /\ lastEnd' = [end |-> "killed", failed |-> 0]
    /\ pc' = "exited"
    /\ UNCHANGED <<relTable, rowFile, diskProcessed, fs, training, backup,
                   lookupFile, is_running, hash_table, not_hashed_ids,
                   processed_files, memProcessed, unprocessed, pos,
                   id_mapping, consent_status_mapping, person_mapping,
                   attempt, run, issued, assigned, rewritten, outcomes,
                   entryContent, startFlags, touched, attempted, prevRun>>
    /\ UNCHANGED <<primary, relIsFile, rowKey>>
    /\ UNCHANGED <<stopRequested, lookupAtStart, entryTable>>
    /\ UNCHANGED <<progress, config>>
    /\ UNCHANGED <<files, resolved, completion>>

----------------------------------------------------------------------------
\* Specifications.

Engine ==
    \/ Construct \/ Start \/ StartNothing \/ Backup \/ MappingPass
    \/ LoopEnter \/ LoopBreak \/ LoopEnd
    \/ CallSkipStopped \/ CallSkipProcessed \/ CallEnter
    \/ WriteOutputs \/ RemoveOk \/ RenameOk
    \/ Mark \/ Save \/ WriteLookup \/ Finish

Faults ==
    \/ StartNoConfig \/ StartMissingColumns
    \/ StartMissingFile \/ RemoveFail \/ RemoveSkip \/ RenameFail
    \/ Retry \/ GiveUp \/ Fail \/ Kill

Next == Engine \/ Faults \/ Stop

\* every configuration, with write failures, stop requests and kills
Spec == Init /\ [][Next]_vars

\* the same, the temporary name of a call may be that of an existing file
NextTemp == Next \/ WriteOutputsCollide
SpecTemp == Init /\ [][NextTemp]_vars

\* runs and re-runs from a configuration whose rows are all unprocessed,
\* with write failures, stop requests and kills
SpecResume == InitResume /\ [][Next]_vars

\* a call of resolve_id_conflicts on the relationship table
ResolveCall ==
    /\ \E v \in QueryIds, t \in IdTypes, c \in QueryContexts :
          resolved' = [id_value |-> v, id_type |-> t, source_context |-> c,
                       ret |-> resolve_id_conflicts(relTable, v, t, c)]
    /\ UNCHANGED <<diskVars, memVars, histVars, cfgVars, files, completion>>

\* resolve_id_conflicts on any table, identifier and context
SpecResolve == InitResolve /\ [][ResolveCall]_vars

\* between two runs the user edits a consent cell of the relationship
\* file, which every run reads anew (process_all_files, read_file)
EditConsent ==
    /\ pc = "exited"
    /\ run < MaxRuns
    /\ \E i \in DOMAIN relTable, c \in ConsentCells :
          /\ c # relTable[i].consent
          /\ relTable' = [relTable EXCEPT ![i].consent = c]
    /\ UNCHANGED <<rowFile, diskProcessed, fs, tempFile, strayTemp, training,
                   backup, lookupFile, primary, tempTable, relIsFile, rowKey>>
    /\ UNCHANGED <<memVars, histVars, cfgVars, auxVars>>

\* stop requests that arrive while the worker is at the loop head
StopAtLoop == pc = "loop" /\ Stop

NextMap ==
    \/ Construct \/ Start \/ StartNothing \/ Backup \/ MappingPass
    \/ LoopEnter \/ LoopBreak \/ LoopEnd
    \/ CallSkipProcessed \/ CallEnter
    \/ WriteOutputs \/ RemoveOk \/ RenameOk
    \/ Mark \/ Save \/ WriteLookup \/ Finish
    \/ StopAtLoop

\* every relationship table, with stop requests between rows
SpecMap == InitMap /\ [][NextMap]_vars

\* every person-centric relationship table, with stop requests between rows
SpecPerson == InitPerson /\ [][NextMap]_vars

\* the content of the files: either identifier column, and the relationship
\* file listed as a source file, with stop requests between rows
SpecFile == InitFile /\ [][NextMap]_vars

\* configurations of several rows, with stop requests between rows
SpecProgress == InitProgress /\ [][NextMap]_vars

\* relationship tables that hold digests, with stop requests between rows
SpecHash == InitHash /\ [][NextMap]_vars

\* source files that share a base name, with stop requests between rows
SpecNames == InitNames /\ [][NextMap]_vars

\* runs on a legacy table whose consent cells change between the runs
NextRegrant == NextMap \/ EditConsent
SpecRegrant == InitRegrant /\ [][NextRegrant]_vars

\* relationship tables with any consent cells, with stop requests between
\* rows
NextConsent == NextMap \/ MappingFail
SpecConsent == InitConsent /\ [][NextConsent]_vars

\* source files that may lack the identifier column, with stop requests
\* between rows
NextColumn == NextMap \/ CallMissingColumn \/ Fail
SpecColumn == InitColumn /\ [][NextColumn]_vars

\* person-centric tables with priorities and dates, with stop requests
\* between rows
SpecConflict == InitConflict /\ [][NextMap]_vars

\* the end of processing_thread: what the worker puts on the update queue
\* after process_all_files has returned or raised
Report ==
    /\ pc = "exited"
    /\ completion = "pending"
    /\ lastEnd.end # "killed"
    /\ completion' =
           IF lastEnd.end \in {"error", "mapping_error", "config_error"}
           THEN "error"
           ELSE IF ~is_running THEN "stopped" ELSE "success"
    /\ UNCHANGED <<diskVars, memVars, histVars, cfgVars, files, resolved>>

NextGui ==
    \/ Launch \/ Engine \/ Stop \/ StopBeforeEngine \/ StopEarly
    \/ Report

\* the engine run by the worker thread of the user interface, with stop
\* requests at any moment after 'Start Processing', and no failures
SpecGui == Init /\ [][NextGui]_vars

----------------------------------------------------------------------------
\* Properties.

\* C1: hash_id is deterministic within and across runs: whenever hash_id(x)
\* has returned h in some engine instance, every call of hash_id(x), in that
\* instance or in a later one loaded from the persisted lookup table,
\* returns h.
C1_HashIdDeterministic ==
    \A p \in issued : \A q \in issued : p[1] = q[1] => p[2] = q[2]

\* the current instance has built its mappings (the mapping pass has run)
MappingBuilt ==
    /\ pc \notin {"none", "launched", "ready", "backup", "mapping"}
    /\ pc = "exited" => lastEnd.end \in {"complete", "stopped", "error"}

\* the identifiers of row i of the relationship table
RowIds(i) == {relTable[i].cells[j] : j \in DOMAIN relTable[i].cells} \ {NaN}

RowConsent(i) == NormalizeConsent(relTable[i].consent)

\* C2: correlation collapse: after create_id_mapping, any two non-empty
\* identifiers of one relationship-table row with consent granted map to
\* the same hash in IdMapping, also when an identifier occurs in several
\* rows.
C2_CorrelationCollapse ==
    MappingBuilt =>
        \A i \in DOMAIN relTable : RowConsent(i) = "granted" =>
            \A a \in RowIds(i) : \A b \in RowIds(i) :
                /\ DictHas(id_mapping, a)
                /\ DictHas(id_mapping, b)
                /\ DictGet(id_mapping, a) = DictGet(id_mapping, b)

\* the identifiers that have a row with consent revoked
RevokedIds == UNION {RowIds(i) : i \in {j \in DOMAIN relTable :
                                         RowConsent(j) = "revoked"}}

\* the identifiers some training extract on disk carries
TrainingIds ==
    UNION {{training[f].rows[i][1] : i \in DOMAIN training[f].rows} :
           f \in Files}

\* C3: consent gating: an identifier with a revoked row is no key of
\* IdMapping, is tagged revoked in ConsentMapping and is in no training
\* extract; every key of IdMapping is tagged granted in ConsentMapping.
C3_ConsentGating ==
    /\ TrainingIds \cap RevokedIds = {}
    /\ MappingBuilt =>
        /\ \A x \in RevokedIds :
              /\ ~DictHas(id_mapping, x)
              /\ DictGetOr(consent_status_mapping, x, None) = "revoked"
        /\ \A k \in DictKeys(id_mapping) :
              DictGetOr(consent_status_mapping, k, None) = "granted"

\* C4: hash stability across runs: an identifier that is no 64-character
\* hex string and was assigned hash h in IdMapping by some run is assigned
\* the same h by every later run that assigns it a hash.
C4_HashStableAcrossRuns ==
    \A p \in assigned : \A q \in assigned :
        (p[1] = q[1] /\ ~LooksLikeHash(p[1])) => p[2] = q[2]

\* a run is on and mapping_df is in memory
InRun == pc \notin {"none", "launched", "ready", "exited"}

\* C5: a row goes from unprocessed to processed only after the rewrite of
\* its source file has fully succeeded: every row flagged processed, in
\* memory or on disk, that was not flagged when the run started has had its
\* source file rewritten and its training extract written, also when stop()
\* comes between the loop's stop check and the one of update_file_ids.
C5_ProcessedOnlyAfterRewrite ==
    \A r \in Rows \ startFlags :
        ((InRun /\ memProcessed[r]) \/ PersistedTrue(r)) =>
            /\ rowFile[r] \in rewritten
            /\ training[rowFile[r]].exists

\* C6: when the replace step has failed on every attempt, the error
\* propagates and the original file is still at its path with the content
\* it had when update_file_ids was entered.
C6_OriginalIntactOnFailure ==
    /\ pc = "raised" => fs[CurFile] = entryContent
    /\ (pc = "exited" /\ lastEnd.end = "error") =>
           fs[rowFile[lastEnd.failed]] = entryContent

\* the latest run has ended, and neither by a stop request nor by a kill
RunEndedUnstopped ==
    pc = "exited" /\ lastEnd.end \in {"complete", "error", "config_error", "nothing"}

\* C7: if update_file_ids raises for a row, the run ends in an error, the
\* row's persisted flag is false, the flags of the rows completed earlier in
\* the run stay persisted as true, and the next run attempts the row again.
C7_FailedRowRetried ==
    /\ (pc = "exited" /\ lastEnd.end = "error") =>
           /\ ~PersistedTrue(lastEnd.failed)
           /\ \A r \in attempted \ {lastEnd.failed} : PersistedTrue(r)
    /\ (RunEndedUnstopped /\ prevRun.end = "error") =>
           prevRun.failed \in attempted

\* C8: a process killed at any point of the rewrite of a source file leaves
\* at the file's path its complete original or its complete new content,
\* never no file.
C8_KillLeavesCompleteFile ==
    (pc = "exited" /\ lastEnd.end = "killed") =>
        \A f \in Files : fs[f] \in {"orig", "new"}

\* the rename failed on the first two attempts and succeeded on the third
TwoRenameFailures == <<"rename_failed", "rename_failed", "ok">>

\* C9: the loop gives up only after its third failed attempt, and when the
\* rename fails twice and then succeeds, update_file_ids returns normally
\* with the new content at the file's path, the file in processed_files and
\* no temporary file left.
C9_ThirdAttemptSucceeds ==
    /\ pc = "raised" => Len(outcomes) = 3
    /\ (pc = "mark" /\ outcomes = TwoRenameFailures) =>
           /\ fs[CurFile] = "new"
           /\ CurFile \in processed_files
           /\ tempFile = "absent"

C9_Witness == pc = "mark" /\ outcomes = TwoRenameFailures

\* C10: a run that follows a complete run rewrites no source file, writes
\* no training extract and creates no backup; and no run passes a row to
\* update_file_ids whose flag was persisted as true when the run started.
C10_Resumable ==
    /\ prevRun.end = "complete" => (touched = {} /\ attempted = {})
    /\ attempted \cap startFlags = {}

C10_Witness ==
    /\ pc = "exited"
    /\ run = 2
    /\ prevRun.end = "complete"
    /\ lastEnd.end = "nothing"
    /\ startFlags = Rows

\* C11: is_running is false after process_all_files has exited, on every
\* path: normal completion, stop, an error raised while a row is processed,
\* an error raised during validation, and the early return taken when every
\* row is already processed.
C11_NotRunningAfterExit ==
    (pc = "exited" /\ lastEnd.end # "killed") => ~is_running

\* C12: a stop request is never lost: once the user has requested stop
\* after a run was started, also before the worker has constructed the
\* engine or before process_all_files has set is_running, the run starts
\* the rewrite of no mapping-table row.
C12_StopNeverLost ==
    [][~(stopRequested /\ pc = "call" /\ pc' = "write")]_vars

\* the identifiers of row i of the relationship table, under either schema
IdsOfRow(i) ==
    IF IsPersonCentric(relTable) THEN {relTable[i].id_value} ELSE RowIds(i)

\* the consent statuses the relationship table gives identifier x: those of
\* the rows that hold x and, under the person-centric schema, of the rows
\* of the persons x belongs to; ID not found when no row holds x
StatusesOf(x) ==
    LET holding == {i \in DOMAIN relTable : x \in IdsOfRow(i)}
        related == IF IsPersonCentric(relTable)
                   THEN {j \in DOMAIN relTable : \E i \in holding :
                            relTable[j].person_id = relTable[i].person_id}
                   ELSE holding
    IN  IF holding = {} THEN {"ID not found"}
        ELSE {RowConsent(j) : j \in related}

\* the rows of the lookup table on disk whose original_id is x
LookupRowsOf(x) ==
    {j \in DOMAIN lookupFile.rows : lookupFile.rows[j].original_id = x}

\* C13: lookup completeness and uniqueness: after a run, under either
\* schema, every identifier in the identifier column of a source file
\* processed in that run is the original_id of exactly one row of the
\* lookup table, and that row carries the identifier's consent status.
C13_LookupCompleteUnique ==
    (pc = "exited" /\ lastEnd.end \in {"complete", "stopped"}) =>
        \A f \in processed_files : \A i \in DOMAIN primary[f].ids :
            /\ Cardinality(LookupRowsOf(primary[f].ids[i])) = 1
            /\ \A j \in LookupRowsOf(primary[f].ids[i]) :
                  lookupFile.rows[j].consent_status
                      \in StatusesOf(primary[f].ids[i])

\* C14: the lookup table is append-across-runs and rewritten at the end of
\* each run: when a run has ended (complete, stopped, or with every row
\* already processed), the run has written the lookup table and every
\* original_id the table held when the run started is still in it.
C14_LookupAppendOnly ==
    (pc = "exited" /\ lastEnd.end \in {"complete", "stopped", "nothing"}) =>
        /\ <<"lookup", 0>> \in touched
        /\ lookupAtStart \subseteq LookupIds(lookupFile)

\* the identifiers the first row of the relationship table links
LinkedIds == RowIds(1)

\* the values written to the training extract of f for the linked identifiers
TrainingHashes(f) ==
    {training[f].rows[i][2] : i \in {j \in DOMAIN training[f].rows :
                                       training[f].rows[j][1] \in LinkedIds}}

\* the linked identifiers that have a row in the training extract of f
TrainingOriginals(f) ==
    {training[f].rows[i][1] : i \in DOMAIN training[f].rows} \cap LinkedIds

\* the rows of the lookup table on disk whose hashed_id is h
LookupRowsWith(h) ==
    {j \in DOMAIN lookupFile.rows : lookupFile.rows[j].hashed_id = h}

\* C15: end-to-end consistency: when a row of the relationship table links
\* the identifiers of the source files with consent granted, then after a
\* complete run the training extract of every source file of the run holds
\* one and the same hash in place of the linked identifiers, and the lookup
\* table holds one row per linked identifier, all sharing that hash.
C15_EndToEnd ==
    (pc = "exited" /\ lastEnd.end = "complete") =>
        \E h \in {sha256(x) : x \in LinkedIds} :
            /\ \A r \in attempted :
                  /\ training[rowFile[r]].exists
                  /\ TrainingHashes(rowFile[r]) = {h}
                  /\ TrainingOriginals(rowFile[r]) = LinkedIds
            /\ \A x \in LinkedIds :
                  /\ Cardinality(LookupRowsOf(x)) = 1
                  /\ LookupRowsOf(x) \subseteq LookupRowsWith(h)
            /\ Cardinality(LookupRowsWith(h)) = Cardinality(LinkedIds)

C15_Witness ==
    /\ pc = "exited"
    /\ lastEnd.end = "complete"
    /\ attempted = Rows
    /\ rewritten = Files
    /\ Cardinality(LinkedIds) = 2

\* update_file_ids has just returned after a successful replace
UpdateSucceeded ==
    pc = "mark" /\ outcomes # <<>> /\ outcomes[Len(outcomes)] = "ok"

\* C16: after update_file_ids succeeds, the primary source file keeps every
\* original value of its identifier column, keeps all its other columns and
\* has exactly one added column, consent_status; no hash is written to it.
C16_PrimaryKeepsIdentifiers ==
    UpdateSucceeded =>
        /\ primary[CurFile].ids = entryTable.ids
        /\ primary[CurFile].cols = entryTable.cols \cup {"consent_status"}
        /\ "consent_status" \notin entryTable.cols
        /\ \A i \in DOMAIN primary[CurFile].ids :
              ~LooksLikeHash(primary[CurFile].ids[i])

\* C17: after process_all_files the identifier column of each processed
\* source file itself holds hashed values: for a consented identifier the
\* value in the source file differs from the original identifier and is the
\* 64-character hash.
C17_SourceHoldsHashes ==
    UpdateSucceeded =>
        \A i \in DOMAIN primary[CurFile].ids :
            primary[CurFile].consent[i] = "granted" =>
                /\ primary[CurFile].ids[i] # entryTable.ids[i]
                /\ LooksLikeHash(primary[CurFile].ids[i])

\* C18: the relationship (mapping_file) table is never modified by
\* process_all_files, also when the configuration lists the relationship
\* file as a source_file: while the file is at its path, its identifier
\* column keeps its values and no column is added to it.
C18_RelationshipFileUntouched ==
    (relIsFile # 0 /\ fs[relIsFile] # "absent") =>
        primary[relIsFile] = RelationshipFile(relTable)

\* C19: backups preserve the original: for any sequence of runs, also one
\* interrupted after a file was rewritten and before its processed flag was
\* persisted, and for a file listed in more than one mapping row, every
\* source file that has been rewritten has a .backup file that holds the
\* content the file had before its first modification.
C19_BackupHoldsOriginal ==
    \A f \in rewritten : backup[f] = "orig"

\* C20: when a run aborts with a configuration error, no file has been
\* modified or created by that run: the mapping configuration file, every
\* source file and the backup and training files are as before the run.
C20_ConfigErrorTouchesNothing ==
    (pc = "exited" /\ lastEnd.end = "config_error") => touched = {}

\* the mapping configuration cannot be used: it does not exist, it lacks a
\* required column, or a relationship file or source file named by one of
\* its rows does not exist
ConfigUnusable ==
    \/ ~config.exists
    \/ ~HasRequiredCols
    \/ \E r \in Rows : ~config.rel[r]
    \/ \E r \in Rows : fs[rowFile[r]] = "absent"

\* C21: process_all_files fails with a ValueError when the mapping file path
\* does not exist, when the mapping file lacks one of the required columns,
\* and when a mapping_file or source_file it references does not exist: a
\* call made on such a configuration ends with the configuration error.
C21_UnusableConfigRaises ==
    [][(pc = "ready" /\ pc' # "ready" /\ ConfigUnusable)
         => (pc' = "exited" /\ lastEnd'.end = "config_error")]_vars

\* C22: within one run of process_all_files, every value passed to the
\* progress callback is an integer between 0 and 100, and the values passed
\* never decrease.
C22_ProgressMonotone ==
    [][progress' # NoProgress
         => (progress' \in 0..100 /\ progress' >= progress)]_vars

\* C23: forward progress under interruption: when runs are stopped or
\* interrupted and process_all_files is run again, every row ends up
\* persisted as processed and every listed source file rewritten. Rows
\* persisted as processed are never worked on again, so from a configuration
\* whose rows were all unprocessed: once every row is persisted as processed,
\* every listed source file has been rewritten.
C23_AllProcessedMeansAllRewritten ==
    (\A r \in Rows : PersistedTrue(r)) =>
        \A r \in Rows : rowFile[r] \in rewritten

\* the files the current run has read and written a temporary file and a
\* training extract for, and the files whose replace step it has completed
WrittenInRun  == {f \in Files : <<"training", f>> \in touched}
ReplacedInRun == {f \in Files : <<"source", f>> \in touched}

C25_DigestPassesThrough ==
    \A p \in issued : LooksLikeHash(p[1]) => p[2] = p[1]

\* the keys under which the resolver stores the identifiers of row i of the
\* relationship table when it is given no source context
ResolverKeys(i) ==
    IF IsPersonCentric(relTable) THEN {PersonKey(relTable[i], None)}
    ELSE {relTable[i].cells[j] : j \in {k \in 1..2 : relTable[i].cells[k] # NaN}}

\* C26: under both schemas a consent value of the relationship table that
\* is missing or is none of granted, revoked, none, id not found is recorded
\* in the consent mapping as none, and the mapping pass does not fail on it.
C26_ConsentNormalized ==
    /\ pc = "exited" => lastEnd.end # "mapping_error"
    /\ MappingBuilt =>
         \A i \in DOMAIN relTable :
             Lower(relTable[i].consent) \notin ValidStatuses =>
                 \A k \in ResolverKeys(i) :
                     /\ DictHas(consent_status_mapping, k)
                     /\ DictGet(consent_status_mapping, k) = "none"

\* the file of the row whose update_file_ids raised in the latest run
FailedFile == rowFile[lastEnd.failed]

\* C27: update_file_ids fails with a validation error when the identifier
\* column is absent from the file's columns, and then it has written no
\* temporary file and no training extract, the source file is unchanged and
\* the path is not added to processed_files.
C27_MissingColumnRaises ==
    /\ [][(/\ pc = "call" /\ pc' # "call"
           /\ is_running /\ ~AlreadyProcessed(CurFile)
           /\ source_id \notin primary[CurFile].cols)
          => (/\ pc' = "raised"
              /\ UNCHANGED <<fs, primary, tempFile, tempTable, training,
                             processed_files>>)]_vars
    /\ []((/\ pc = "exited" /\ lastEnd.end = "error"
           /\ source_id \notin entryTable.cols)
          => (/\ tempFile = "absent"
              /\ <<"training", FailedFile>> \notin touched
              /\ ~training[FailedFile].exists
              /\ primary[FailedFile] = entryTable
              /\ fs[FailedFile] = entryContent
              /\ FailedFile \notin processed_files))

\* update_file_ids has raised for a file without the identifier column
C27_Witness ==
    /\ pc = "exited"
    /\ lastEnd.end = "error"
    /\ source_id \notin primary[FailedFile].cols
    /\ FailedFile \in {rowFile[r] : r \in attempted}

\* C28: the file processor builds the correlation key as the resolver does,
\* whether id_type is present or absent and source_context present, blank or
\* absent: an identifier of the file that is present in the relationship
\* table is never annotated 'ID not found' in the rewritten file.
C28_KeysAgree ==
    pc = "remove" =>
        \A i \in DOMAIN tempTable.ids :
            (\E j \in DOMAIN relTable : tempTable.ids[i] \in IdsOfRow(j))
                => tempTable.consent[i] # "ID not found"

\* C29: both outputs of update_file_ids, the rewritten source file and the
\* training extract, are first written to temporary files and only then
\* moved into place, neither final path is written to directly: the content
\* at a source path and at a training path changes only in the replace step.
C29_OutputsViaTemp ==
    [][/\ primary' # primary => pc \in {"remove", "rename"}
       /\ training' # training => pc \in {"remove", "rename"}]_vars

\* the keys of the group of the i-th person when no source context is given
GroupKeys(i) ==
    LET records == RecordsOf(relTable, PersonOrder[i])
    IN  {PersonKey(records[n], None) : n \in DOMAIN records}

\* the consent status of the group: that of its first row
GroupStatus(i) ==
    NormalizeConsent(RecordsOf(relTable, PersonOrder[i])[1].consent)

\* the groups in the order of mapping_table.groupby
Groups == {i \in DOMAIN PersonOrder : RecordsOf(relTable, PersonOrder[i]) # <<>>}

\* the keys of group i that no later group holds as well
OwnKeys(i) ==
    {k \in GroupKeys(i) : \A j \in Groups : j > i => k \notin GroupKeys(j)}

Holders(id_value, id_type) ==
    LET recs == MatchingRecords(relTable, id_value, id_type)
    IN  {recs[i].person_id : i \in DOMAIN recs}

\* the rule decides between the holders: no two records of different persons
\* have the same priority and the same effective_date
RuleDecides(id_value, id_type) ==
    LET recs == MatchingRecords(relTable, id_value, id_type)
    IN  \A i, j \in DOMAIN recs :
            recs[i].person_id # recs[j].person_id =>
                \/ SortsBefore(recs[i], recs[j])
                \/ SortsBefore(recs[j], recs[i])

\* the consent status of a person: that of the first row of the group
StatusOfPerson(p) == NormalizeConsent(RecordsOf(relTable, p)[1].consent)

\* C31: when the same (id_value, id_type) key belongs to more than one
\* person of a person-centric relationship table, the hash and the consent
\* status create_id_mapping records for the key are those of the person the
\* priority/recency rule of resolve_id_conflicts selects.
C31_ConflictByPriority ==
    (MappingBuilt /\ IsPersonCentric(relTable)) =>
        \A v \in Ids, t \in IdTypes :
            (Cardinality(Holders(v, t)) > 1 /\ RuleDecides(v, t)) =>
                LET p == resolve_id_conflicts(relTable, v, t, None)
                    k == v \o "_" \o t
                IN  /\ DictGet(consent_status_mapping, k) = StatusOfPerson(p)
                    /\ StatusOfPerson(p) = "granted" =>
                           /\ DictHas(id_mapping, k)
                           /\ DictGet(id_mapping, k)
                                  = DictGet(person_mapping, p)

\* the rows of the relationship table that match the latest call, and among
\* them the rows of the requested context when one is given and some row
\* has it
Matching == {i \in DOMAIN relTable :
                /\ relTable[i].id_value = resolved.id_value
                /\ relTable[i].id_type = resolved.id_type}
InContext == {i \in Matching :
                 relTable[i].source_context = resolved.source_context}
Candidates ==
    IF resolved.source_context \notin {None, ""} /\ InContext # {}
    THEN InContext ELSE Matching

\* C32: resolve_id_conflicts returns, among the rows matching (id_value,
\* id_type), restricted to the rows of the requested context when a context
\* is given and such a row exists, the person_id of a row with the smallest
\* priority and, among those, the latest effective_date; when no row matches
\* it returns the not-found value.
C32_ResolveByPriorityThenDate ==
    resolved # NoCall =>
        IF Matching = {} THEN resolved.ret = None
        ELSE \E i \in Candidates :
                /\ resolved.ret = relTable[i].person_id
                /\ \A j \in Candidates :
                      \/ relTable[i].priority < relTable[j].priority
                      \/ /\ relTable[i].priority = relTable[j].priority
                         /\ relTable[i].effective_date
                                >= relTable[j].effective_date

\* a call with a context that some matching rows have, answered from two
\* rows of different persons with the same priority and different dates
C32_Witness ==
    /\ resolved # NoCall
    /\ resolved.ret # None
    /\ InContext # {}
    /\ \E i, j \in Candidates :
          /\ relTable[i].person_id = resolved.ret
          /\ relTable[j].person_id # resolved.ret
          /\ relTable[i].priority = relTable[j].priority
          /\ relTable[i].effective_date > relTable[j].effective_date

\* the rows of the written file annotated 'granted', and the place of such
\* a row among them
GrantedRows == {i \in DOMAIN tempTable.consent :
                   tempTable.consent[i] = "granted"}
PlaceOf(i) == Cardinality({j \in GrantedRows : j <= i})
KeyOfRow(i) == EnhancedKey(tempTable.ids[i], rowKey[CurRow].id_type,
                           rowKey[CurRow].source_context)

\* C33: the training extract that update_file_ids wrote holds exactly the
\* rows of the file annotated granted, in the file's order, and the
\* identifier of each is the value id_mapping has for the row's key.
C33_TrainingIsGrantedRowsHashed ==
    pc = "remove" =>
        /\ training[CurFile].exists
        /\ Len(training[CurFile].rows) = Cardinality(GrantedRows)
        /\ \A i \in GrantedRows :
              /\ DictHas(id_mapping, KeyOfRow(i))
              /\ training[CurFile].rows[PlaceOf(i)]
                    = <<tempTable.ids[i], DictGet(id_mapping, KeyOfRow(i))>>

\* an extract written from a file with a granted row after a row that is
\* not granted
C33_Witness ==
    /\ pc = "remove"
    /\ \E i, j \in DOMAIN tempTable.consent :
          /\ i < j
          /\ tempTable.consent[i] # "granted"
          /\ tempTable.consent[j] = "granted"
          /\ training[CurFile].rows[1][2] # tempTable.ids[j]

\* C34: no raw identifier is issued as a hash: every value of id_mapping
\* and every identifier written to a training extract is a digest and
\* differs from the original identifier, unless the original is itself a
\* digest; also when an identifier recorded without consent by an earlier
\* run is granted in a later run.
C34_NoRawIdentifierIssued ==
    /\ \A i \in DOMAIN id_mapping :
          /\ LooksLikeHash(id_mapping[i][2])
          /\ \/ id_mapping[i][2] # KeyParts(id_mapping[i][1]).actual_id
             \/ LooksLikeHash(KeyParts(id_mapping[i][1]).actual_id)
    /\ \A f \in Files : \A k \in DOMAIN training[f].rows :
          /\ LooksLikeHash(training[f].rows[k][2])
          /\ \/ training[f].rows[k][2] # training[f].rows[k][1]
             \/ LooksLikeHash(training[f].rows[k][1])

\* C35: each configuration row is applied to its own file: the file that
\* update_file_ids rewrites for a row is the file at the row's source_file
\* path, and a row is flagged processed only if the file at that path was
\* rewritten; also when source files in different directories share a base
\* name.
C35_RowAppliedToOwnFile ==
    /\ pc \in {"write", "remove", "rename", "mark"} =>
           source_file(CurFile) = source_file(rowFile[CurRow])
    /\ \A r \in Rows : PersistedTrue(r) => rowFile[r] \in rewritten

\* C36: update_file_ids modifies, creates or deletes no file other than
\* its source file, that file's training extract and the temporary file it
\* created itself: a file that was in the directory before the call, every
\* other source file and extract, the backups, the lookup table and the
\* configuration are unchanged by each of its steps.
C36_OtherFilesUntouched ==
    [][(pc \in {"write", "remove", "rename", "caught"} /\ pc' # "exited") =>
          /\ strayTemp => strayTemp'
          /\ \A g \in Files \ {CurFile} :
                /\ fs'[g] = fs[g]
                /\ primary'[g] = primary[g]
                /\ training'[g] = training[g]
          /\ backup' = backup
          /\ lookupFile' = lookupFile
          /\ diskProcessed' = diskProcessed]_vars

\* C37: the worker of the GUI reports "stopped" exactly when the user
\* requested a stop during the run, and "success" exactly when the run
\* went through its rows without a stop request.
C37_ReportMatchesStopRequest ==
    [][(completion = "pending" /\ completion' # "pending") =>
          /\ completion' = "stopped" <=> stopRequested
          /\ completion' = "success" <=>
                 (~stopRequested /\ lastEnd.end \in {"complete", "nothing"})]_vars

====
